---------------------------- MODULE Spec2Model ----------------------------
(***************************************************************************)
(* Aegiswarm: swarm-intelligence analysers of security logs.               *)
(*                                                                         *)
(* The five analysers under app/backend/backup (bee colony, ant colony,    *)
(* particle swarm, firefly, fish school) and the orchestrator of           *)
(* app/backend/main.py, as one state machine per analyser: one run of      *)
(* analyze(logs) from the call to the returned result or the raised        *)
(* exception.                                                              *)
(*                                                                         *)
(* Numbers.  Python floats are modelled in fixed point: the integer x      *)
(* stands for x / FP, so FP is 1.0.  A product of two fixed-point numbers  *)
(* is divided by FP, a quotient is multiplied by FP first.  NaN is a value *)
(* of its own, with IEEE comparison rules (every comparison is false).     *)
(* Random draws are choices from finite grids inside the drawn range.      *)
(***************************************************************************)
EXTENDS Integers, Sequences, FiniteSets, TLC

\* The fixed-point unit.
FP == 1000

\* The number of grid steps of a uniform draw in [0,1).
GridSteps == 2

\* Largest colony / swarm / school size and iteration budget explored.
MaxColony == 2
MaxIter == 1

\* The number of distinct indices a draw of random.randrange explores.
IndexDraws == 2

Tenth(k) == (k * FP) \div 10
Hundredth(k) == (k * FP) \div 100

NaN == 0 - 1
None == <<"None">>
\* A log_data that is empty or has no 'logs' key (main.py line 30).
NoLogs == <<[logs |-> "missing"]>>
Unbound == <<"unbound">>

-----------------------------------------------------------------------------
(* Arithmetic helpers (numpy / builtins).                                  *)

RECURSIVE SumSeq(_)
SumSeq(s) == IF s = <<>> THEN 0 ELSE Head(s) + SumSeq(Tail(s))

RECURSIVE MaxSeq(_)
MaxSeq(s) == IF Len(s) = 1 THEN s[1]
             ELSE LET m == MaxSeq(Tail(s)) IN IF s[1] >= m THEN s[1] ELSE m

Max2(a, b) == IF a >= b THEN a ELSE b
Min2(a, b) == IF a <= b THEN a ELSE b

\* np.clip(x, lo, hi)
Clip(x, lo, hi) == Max2(lo, Min2(hi, x))

\* np.argmax over finite values: the first index holding the maximum.
ArgMax(s) == CHOOSE i \in 1..Len(s) :
                 /\ \A j \in 1..Len(s) : s[j] <= s[i]
                 /\ \A j \in 1..(i-1) : s[j] < s[i]

\* np.dot(feature_vector, position): both fixed point.
Dot(a, b) == SumSeq([k \in 1..Len(a) |-> a[k] * b[k]]) \div FP

RECURSIVE SqrtIter(_, _, _)
SqrtIter(n, lo, hi) ==
    IF lo >= hi THEN lo
    ELSE LET mid == (lo + hi + 1) \div 2
         IN IF mid * mid <= n THEN SqrtIter(n, mid, hi)
                              ELSE SqrtIter(n, lo, mid - 1)

\* The square root of a fixed-point number, fixed point.
FSqrt(x) == SqrtIter(x * FP, 0, Min2(x * FP + 1, 46340))

\* np.mean, np.var, np.std of a non-empty sequence of fixed-point numbers.
Mean(s) == SumSeq(s) \div Len(s)
Var(s) == LET m == Mean(s)
          IN (SumSeq([k \in 1..Len(s) |-> (s[k] - m) * (s[k] - m)]) \div Len(s)) \div FP
Std(s) == FSqrt(Var(s))

\* np.mean(((s - mean) / std) ** 3), for std > 0.
Skewness(s) ==
    LET m == Mean(s)
        sd == Std(s)
        z(k) == ((s[k] - m) * FP) \div sd
    IN SumSeq([k \in 1..Len(s) |-> (((z(k) * z(k)) \div FP) * z(k)) \div FP]) \div Len(s)

\* The values np.random.uniform(0, 1) is modelled to return: a grid in [0,1).
UnitGrid == {(k * FP) \div GridSteps : k \in 0..(GridSteps - 1)}


-----------------------------------------------------------------------------
(* Log entries.  A log entry maps every key to a scalar; a key the entry   *)
(* does not carry reads as the default log.get gives it ('' or 0).  Only   *)
(* the timestamp key is ever tested for presence ('timestamp' in log), so  *)
(* its absence is a value of its own.                                      *)

Absent == "<absent>"

DefaultLog ==
    [timestamp |-> Absent, source_ip |-> "", destination_ip |-> "",
     protocol |-> "", destination_port |-> 0, event_type |-> "",
     status |-> "", location |-> "", process_name |-> "", filename |-> "",
     username |-> "", bytes_sent |-> 0, bytes_received |-> 0]

\* The entry of the high-risk scenario: four keys, everything else absent.
HighRiskLog ==
    [DefaultLog EXCEPT !.location = "North Korea", !.destination_port = 445,
                       !.process_name = "mimikatz", !.status = "failed"]

\* A failed login from an internal address.
FailedLoginLog ==
    [DefaultLog EXCEPT !.timestamp = "2024-05-01T10:04:00Z", !.source_ip = "10.0.0.5",
                       !.event_type = "login", !.status = "failed"]

\* A lateral movement carrying most risk indicators, with the earliest time.
LateralLog ==
    [DefaultLog EXCEPT !.timestamp = "2024-05-01T10:00:00Z", !.source_ip = "10.0.0.9",
                       !.destination_ip = "10.0.0.7", !.protocol = "SMB",
                       !.destination_port = 445, !.event_type = "lateral_movement",
                       !.status = "Failed", !.location = "Russia",
                       !.process_name = "Mimikatz.exe"]

\* An unremarkable access, with a timestamp that carries no timezone.
BenignLog ==
    [DefaultLog EXCEPT !.timestamp = "2024-05-01T14:00:00", !.source_ip = "192.168.1.2",
                       !.destination_ip = "192.168.1.3", !.event_type = "access",
                       !.status = "success", !.bytes_sent = 100, !.bytes_received = 200]

\* A file download whose timestamp does not parse.
DownloadLog ==
    [DefaultLog EXCEPT !.timestamp = "yesterday", !.source_ip = "203.0.113.7",
                       !.event_type = "file_download", !.filename = "exploit.ps1",
                       !.location = "Ukraine", !.bytes_sent = 2000000]

\* str.lower() on the strings of the pool.
Lower(s) == CASE s = "Mimikatz.exe" -> "mimikatz.exe"
              [] s = "Failed" -> "failed"
              [] OTHER -> s

\* needle in haystack (substring), on the strings of the pool and the tables.
Contains(haystack, needle) ==
    \/ needle = haystack
    \/ needle = ""
    \/ <<haystack, needle>> \in
          {<<"mimikatz.exe", "mimikatz">>, <<"mimikatz.exe", "exe">>,
           <<"mimikatz.exe", ".exe">>,
           <<"exploit.ps1", "exploit">>, <<"exploit.ps1", "ps1">>,
           <<"exploit.ps1", ".ps1">>, <<"exploit.ps1", "pl">>}

\* any(pattern in s for pattern in patterns)
ContainsAny(s, patterns) == \E p \in patterns : Contains(s, p)

\* s.startswith(prefix) on the addresses of the pool.
StartsWith(s, prefix) ==
    <<s, prefix>> \in {<<"10.0.0.5", "10.">>, <<"10.0.0.9", "10.">>,
                       <<"10.0.0.7", "10.">>, <<"192.168.1.2", "192.168.">>,
                       <<"192.168.1.3", "192.168.">>}

\* datetime.fromisoformat after the trailing 'Z' is rewritten to '+00:00':
\* a datetime (aware or naive, seconds since the day began, hour) or ValueError.
ValueError == [valid |-> FALSE, aware |-> FALSE, secs |-> 0, hour |-> 0]
fromisoformat(ts) ==
    CASE ts = "2024-05-01T10:00:00Z" -> [valid |-> TRUE, aware |-> TRUE, secs |-> 36000, hour |-> 10]
      [] ts = "2024-05-01T10:04:00Z" -> [valid |-> TRUE, aware |-> TRUE, secs |-> 36240, hour |-> 10]
      [] ts = "2024-05-01T14:00:00" -> [valid |-> TRUE, aware |-> FALSE, secs |-> 50400, hour |-> 14]
      [] OTHER -> ValueError

\* log.get('timestamp', '')
GetTimestamp(log) == IF log.timestamp = Absent THEN "" ELSE log.timestamp

-----------------------------------------------------------------------------
(* The state of one run of analyze(logs).                                  *)

VARIABLES
    alg,              \* which analyser runs: "abc", "aco", "pso", "firefly", "fss", "main"
    logs,             \* the argument of analyze
    pc,               \* the statement the run is at
    population_size,  \* colony_size, num_ants, n_particles, n_fireflies, school_size
    max_iterations,   \* max_iterations (iterations in aco and fss)
    iteration,        \* the iterations of the main loop completed
    outcome,          \* "running", "returned" or "raised"
    result,           \* the dictionary analyze returned (None before)
    features,         \* the feature matrix (feature_vectors in abc)
    log_mapping,      \* row of the matrix -> position in logs (log_indices in fss)
    positions,        \* the candidates: food_sources, positions, fireflies
    fitness_values,   \* fitness_values (abc, fss), brightness (firefly)
    best_position,    \* best_solution, global_best_position, best_position
    best_fitness,     \* best_fitness, global_best_score
    trials,           \* abc: the stagnation counters
    probabilities,    \* abc: the onlooker selection probabilities
    bee,              \* the index i of the loop the run is in
    count,            \* abc: onlooker acceptance attempts made
    new_solution,     \* abc: the neighbour _produce_new_solution returned last
    velocities,       \* pso: the velocity of each particle
    personal_best_positions,  \* pso
    personal_best_scores,     \* pso
    convergence,      \* optimization_path (pso), convergence (firefly): the best
                      \* fitness of the initial swarm and after every iteration;
                      \* abc, aco and fss keep no such list, there it is a history
                      \* variable: the best fitness after every iteration
    weights,          \* fss: the weight of each fish
    weight_deltas,    \* fss: the weight changes of the last iteration
    fitness_gains,    \* fss: history variable, new_fitness - current_fitness of each
                      \* fish the individual movement of the iteration moved, else 0
    processed_logs,   \* aco: the preprocessed logs, sorted by datetime
    node_attractiveness,  \* aco
    pheromones,       \* aco: the pheromone matrix
    all_paths,        \* aco: the paths of the ants of the last iteration
    all_scores,       \* aco: their scores
    best_path,        \* aco
    detection_summary \* main: the scores of the scorers run so far

common_vars == <<alg, logs, pc, population_size, max_iterations, iteration,
                 outcome, result, features, log_mapping>>
common_vars_but_pc == <<alg, logs, population_size, max_iterations, iteration,
                        outcome, result, features, log_mapping>>
swarm_vars == <<positions, fitness_values, best_position, best_fitness>>
abc_vars == <<trials, probabilities, bee, count, new_solution>>
pso_vars == <<velocities, personal_best_positions, personal_best_scores>>
fss_vars == <<weights, weight_deltas, fitness_gains>>
aco_vars == <<processed_logs, node_attractiveness, pheromones, all_paths, all_scores,
              best_path>>
abc_vars_but_bee == <<trials, probabilities, count, new_solution>>
not_abc_vars == <<pso_vars, fss_vars, aco_vars, detection_summary>>
not_pso_vars == <<abc_vars_but_bee, fss_vars, aco_vars, detection_summary>>
not_firefly_vars == <<abc_vars, pso_vars, fss_vars, aco_vars, detection_summary>>
not_fss_vars == <<abc_vars_but_bee, pso_vars, aco_vars, detection_summary>>
not_aco_vars == <<abc_vars_but_bee, pso_vars, fss_vars, detection_summary>>
not_main_vars == <<swarm_vars, abc_vars, pso_vars, convergence, fss_vars, aco_vars>>

-----------------------------------------------------------------------------
(* ABCLogAnalyzer (abc_test.py).                                           *)

ABC_DIM == 8
ABC_LIMIT == 1

ABC_location_high == {"North Korea", "Russia", "Iran", "China", "Syria"}
ABC_location_medium == {"Ukraine", "Belarus", "Iraq", "Pakistan", "Nigeria"}
ABC_port_high == {22, 23, 3389, 445, 135, 139, 8080, 1433, 3306}
ABC_port_medium == {21, 8443, 5900, 5901, 6667}
ABC_protocol_high == {"SMB", "Telnet", "RDP", "SSH"}
ABC_protocol_medium == {"FTP", "IRC"}
ABC_process_high == {"ssh_brute", "mal_downloader", "worm.exe", "mimikatz", "pwdump"}
ABC_process_medium == {"scan", "crack", "exploit", "admin"}
ABC_event_high == {"lateral_movement", "data_exfiltration", "privilege_escalation"}
ABC_event_medium == {"port_scan", "brute_force"}

\* One row of _extract_features.
ABCFeatureVector(log) ==
    LET process == Lower(log.process_name)
        event_type == Lower(log.event_type)
        filename == Lower(log.filename)
        username == Lower(log.username)
    IN << IF log.location \in ABC_location_high THEN FP
          ELSE IF log.location \in ABC_location_medium THEN Tenth(5) ELSE 0,
          IF log.destination_port \in ABC_port_high THEN FP
          ELSE IF log.destination_port \in ABC_port_medium THEN Tenth(5) ELSE 0,
          IF log.protocol \in ABC_protocol_high THEN FP
          ELSE IF log.protocol \in ABC_protocol_medium THEN Tenth(5) ELSE 0,
          IF ContainsAny(process, ABC_process_high) THEN FP
          ELSE IF ContainsAny(process, ABC_process_medium) THEN Tenth(5) ELSE 0,
          IF event_type \in ABC_event_high THEN FP
          ELSE IF event_type \in ABC_event_medium THEN Tenth(5) ELSE 0,
          IF Lower(log.status) = "failed" THEN FP ELSE 0,
          IF log.bytes_received > 0
          THEN (IF log.bytes_sent > 5 * log.bytes_received THEN FP
                ELSE IF log.bytes_sent > log.bytes_received THEN Tenth(5) ELSE 0)
          ELSE IF log.bytes_sent > 10000 THEN FP ELSE 0,
          IF filename # "" /\ ContainsAny(filename, {"exploit", "malware", "hack", "backdoor"})
          THEN FP
          ELSE IF username \in {"root", "admin", "administrator"} THEN Tenth(7) ELSE 0 >>

ABC_extract_features(ls) == [k \in 1..Len(ls) |-> ABCFeatureVector(ls[k])]

IsNaNVec(v) == v[1] = NaN
NaNVec(d) == [k \in 1..d |-> NaN]

\* solution /= solution.sum(): 0/0 is NaN in every component.
ABCNormalize(solution) ==
    LET total == SumSeq(solution)
    IN IF IsNaNVec(solution) \/ total = 0 THEN NaNVec(Len(solution))
       ELSE [k \in 1..Len(solution) |-> (solution[k] * FP) \div total]

\* What np.random.uniform(0.0, 1.0, size=d) is modelled to return.
UniformDraws(d) ==
    { [k \in 1..d |-> 0],
      [k \in 1..d |-> IF k = 1 THEN Tenth(9) ELSE 0],
      [k \in 1..d |-> IF k % 2 = 1 THEN Tenth(8) ELSE Tenth(2)] }

\* _generate_random_solution, for each draw.
ABC_generate_random_solution(d) == {ABCNormalize(u) : u \in UniformDraws(d)}

\* phi = random.uniform(-1, 1)
PhiValues == {0 - FP, Tenth(5)}

\* dimension = random.randrange(d)
DimensionDraws(d) == 1..Min2(IndexDraws, d)

\* _produce_new_solution with its three draws given.
ABC_produce_new_solution(food_sources, index, other_index, dimension, phi) ==
    LET solution == food_sources[index]
        other == food_sources[other_index]
        moved == IF IsNaNVec(solution) \/ IsNaNVec(other) THEN NaN
                 ELSE solution[dimension]
                      + (phi * (solution[dimension] - other[dimension])) \div FP
        \* max(0.0, min(1.0, x)): both builtins keep their first argument
        \* against a NaN, so a NaN is clamped to 1.0
        clamped == IF moved = NaN THEN FP ELSE Max2(0, Min2(FP, moved))
        changed == IF IsNaNVec(solution) THEN solution
                   ELSE [solution EXCEPT ![dimension] = clamped]
    IN ABCNormalize(changed)

\* a > b on floats that may be NaN
FloatGt(a, b) == a # NaN /\ b # NaN /\ a > b

\* _calculate_fitness
ABC_calculate_fitness(solution, feature_vectors) ==
    IF Len(feature_vectors) <= 1 THEN 0
    ELSE IF IsNaNVec(solution) THEN NaN
    ELSE LET anomaly_scores == [k \in 1..Len(feature_vectors) |->
                                   Dot(feature_vectors[k], solution)]
             variance == Var(anomaly_scores)
             avg_score == Mean(anomaly_scores)
             skewness == IF Std(anomaly_scores) > 0 THEN Skewness(anomaly_scores) ELSE 0
         IN variance * 2 + avg_score \div 2 + Max2(0, skewness)

\* list.sort(key=score, reverse=True): stable, highest score first.
RECURSIVE SortByScoreDesc(_)
SortByScoreDesc(s) ==
    IF s = <<>> THEN <<>>
    ELSE LET rest == SortByScoreDesc(SubSeq(s, 1, Len(s) - 1))
             x == s[Len(s)]
             k == Cardinality({j \in 1..Len(rest) : rest[j].score >= x.score})
         IN SubSeq(rest, 1, k) \o <<x>> \o SubSeq(rest, k + 1, Len(rest))

\* The rows of a sequence that satisfy a test, in order.
RECURSIVE IndicesWhere(_, _)
IndicesWhere(flags, k) ==
    IF k > Len(flags) THEN <<>>
    ELSE (IF flags[k] THEN <<k>> ELSE <<>>) \o IndicesWhere(flags, k + 1)

\* scores / mean: a normalization that does not bound the scores by 1.
NormalizeByMean(scores) ==
    LET max_score == MaxSeq(scores)
    IN IF max_score > 0
       THEN [k \in 1..Len(scores) |-> (scores[k] * FP) \div Max2(1, Mean(scores))]
       ELSE scores

\* scores / (2 * max_score): a normalization whose largest score is one half.
NormalizeByTwiceMax(scores) ==
    LET max_score == MaxSeq(scores)
    IN IF max_score > 0
       THEN [k \in 1..Len(scores) |-> (scores[k] * FP) \div (2 * max_score)]
       ELSE scores

\* scores / max_score when max_score > 0 (the scores as they are otherwise)
NormalizeByMax(scores) ==
    LET max_score == MaxSeq(scores)
    IN IF max_score > 0 THEN [k \in 1..Len(scores) |-> (scores[k] * FP) \div max_score]
       ELSE scores

\* The result every analyser returns, under one set of keys:
\*   score    anomaly_score (abc, fss), threat_score (aco), risk_score (pso),
\*            alert_score (firefly)
\*   flagged  detected_anomalies, most_suspicious_logs, findings,
\*            critical_events, priority_events: each with log_index (the
\*            reported index, counted from 1 here), score, entry (the log
\*            whose fields the item reports) and reasons
\*   patterns suspicious_patterns (firefly), attack_patterns (aco)
\*   clusters clusters (aco)
\*   trace    optimization_path (pso), optimization_convergence (firefly)
\*   confidence  confidence (abc): the best fitness
MakeResult(algorithm, score, flagged, patterns, clusters, trace, confidence) ==
    [algorithm |-> algorithm, score |-> score, flagged |-> flagged,
     patterns |-> patterns, clusters |-> clusters, trace |-> trace,
     confidence |-> confidence]

\* A result for "not logs" that averages the scores of no entries: the mean
\* of an empty array is NaN.
MeanOfNothingResult(algorithm) == MakeResult(algorithm, NaN, <<>>, <<>>, <<>>, <<>>, 0)

\* The early return of every analyze for "not logs".
EmptyResult(algorithm) == MakeResult(algorithm, 0, <<>>, <<>>, <<>>, <<>>, 0)

ABC_THRESHOLD == Tenth(6)

ABCReasons(log) ==
    (IF log.location \in ABC_location_high THEN <<"Suspicious location">> ELSE <<>>)
    \o (IF log.destination_port \in ABC_port_high THEN <<"High-risk port">> ELSE <<>>)
    \o (IF log.protocol \in ABC_protocol_high THEN <<"Risky protocol">> ELSE <<>>)
    \o (IF ContainsAny(Lower(log.process_name), ABC_process_high)
        THEN <<"Suspicious process">> ELSE <<>>)
    \o (IF Lower(log.status) = "failed" THEN <<"Failed operation">> ELSE <<>>)

\* _evaluate_best_solution for a solution that is an array
ABC_evaluate_best_solution(solution, ls, feature_vectors) ==
    IF IsNaNVec(solution)
    THEN \* every score is NaN: nothing exceeds the threshold, and
         \* min(1.0, nan) is 1.0
         [overall_score |-> FP, detected_anomalies |-> <<>>]
    ELSE
    LET raw == [k \in 1..Len(feature_vectors) |-> Dot(feature_vectors[k], solution)]
        anomaly_scores == NormalizeByMax(raw)
        anomaly_indices ==
            IndicesWhere([k \in 1..Len(raw) |-> anomaly_scores[k] > ABC_THRESHOLD], 1)
        detected == [n \in 1..Len(anomaly_indices) |->
                        [log_index |-> anomaly_indices[n],
                         score |-> anomaly_scores[anomaly_indices[n]],
                         entry |-> ls[anomaly_indices[n]],
                         reasons |-> ABCReasons(ls[anomaly_indices[n]])]]
        anomaly_percentage == (Len(anomaly_indices) * FP) \div Len(ls)
        avg_anomaly_score ==
            IF Len(anomaly_indices) > 0
            THEN Mean([n \in 1..Len(anomaly_indices) |-> anomaly_scores[anomaly_indices[n]]])
            ELSE 0
        max_anomaly_score == MaxSeq(anomaly_scores)
        overall == (anomaly_percentage * 3) \div 10 + (avg_anomaly_score * 4) \div 10
                   + (max_anomaly_score * 3) \div 10
    IN [overall_score |-> Min2(FP, overall),
        detected_anomalies |-> SortByScoreDesc(detected)]

\* np.argmax(fitness_values): a NaN counts as the maximum.
ArgMaxNaN(s) ==
    IF \E k \in 1..Len(s) : s[k] = NaN
    THEN CHOOSE k \in 1..Len(s) : s[k] = NaN /\ \A j \in 1..(k-1) : s[j] # NaN
    ELSE ArgMax(s)

\* sum(fitness_values)
SumNaN(s) == IF \E k \in 1..Len(s) : s[k] = NaN THEN NaN ELSE SumSeq(s)

\* Selection probabilities that are 0 when the fitness values sum to 0.
ABC_probabilities_no_fallback(fv) ==
    LET sum_fitness == SumNaN(fv)
    IN [k \in 1..Len(fv) |->
          IF FloatGt(sum_fitness, 0) THEN (fv[k] * FP) \div sum_fitness ELSE 0]

\* The probabilities of the onlooker phase (abc_test.py line 104).
ABC_probabilities(fv) ==
    LET sum_fitness == SumNaN(fv)
    IN [k \in 1..Len(fv) |->
          IF FloatGt(sum_fitness, 0) THEN (fv[k] * FP) \div sum_fitness
          ELSE FP \div Len(fv)]

\* random.random(): the grid, and the largest float below 1.
RandomValues == UnitGrid \cup {FP - 1}

\* analyze, lines 68-85: the early return, or the features and the colony.
ABCStart ==
    /\ alg = "abc" /\ pc = "start"
    /\ IF logs = <<>>
       THEN /\ result' = EmptyResult("abc")
            /\ outcome' = "returned"
            /\ pc' = "done"
            /\ UNCHANGED <<features, positions, trials, convergence>>
       ELSE /\ features' = ABC_extract_features(logs)
            /\ \E food_sources \in
                   [1..population_size -> ABC_generate_random_solution(ABC_DIM)] :
                   positions' = food_sources
            /\ trials' = [k \in 1..population_size |-> 0]
            /\ UNCHANGED convergence
            /\ pc' = "loop"
            /\ UNCHANGED <<result, outcome>>
    /\ UNCHANGED <<alg, logs, population_size, max_iterations, iteration, log_mapping,
                   fitness_values, best_position, best_fitness,
                   probabilities, bee, count, new_solution>>
    /\ UNCHANGED not_abc_vars

\* for iteration in range(self.max_iterations)
ABCLoop ==
    /\ alg = "abc" /\ pc = "loop"
    /\ IF iteration < max_iterations
       THEN pc' = "employed" /\ bee' = 1
       ELSE pc' = "synth" /\ bee' = bee
    /\ UNCHANGED <<alg, logs, population_size, max_iterations, iteration, outcome,
                   result, features, log_mapping, swarm_vars, trials, probabilities,
                   count, new_solution>>
    /\ UNCHANGED <<not_abc_vars, convergence>>

\* The greedy acceptance taking a neighbour that is as good as the source.
ABCAcceptNotWorse(food_sources, tr, i, neighbour, feature_vectors) ==
    LET new_fitness == ABC_calculate_fitness(neighbour, feature_vectors)
        current_fitness == ABC_calculate_fitness(food_sources[i], feature_vectors)
    IN IF new_fitness # NaN /\ current_fitness # NaN /\ new_fitness >= current_fitness
       THEN <<[food_sources EXCEPT ![i] = neighbour], [tr EXCEPT ![i] = 0]>>
       ELSE <<food_sources, [tr EXCEPT ![i] = tr[i] + 1]>>

\* Lines 91-99 and 112-120: the greedy acceptance of a neighbour of source i.
\* The new food sources and trials, as a pair.
ABCAccept(food_sources, tr, i, neighbour, feature_vectors) ==
    LET new_fitness == ABC_calculate_fitness(neighbour, feature_vectors)
        current_fitness == ABC_calculate_fitness(food_sources[i], feature_vectors)
    IN IF FloatGt(new_fitness, current_fitness)
       THEN <<[food_sources EXCEPT ![i] = neighbour], [tr EXCEPT ![i] = 0]>>
       ELSE <<food_sources, [tr EXCEPT ![i] = tr[i] + 1]>>

\* One pass of the employed-bee loop; after the last bee, lines 102-108.
ABCEmployed ==
    /\ alg = "abc" /\ pc = "employed" /\ population_size > 1
    /\ \E other_index \in (1..population_size) \ {bee}, dimension \in DimensionDraws(ABC_DIM),
          phi \in PhiValues :
          LET neighbour == ABC_produce_new_solution(positions, bee, other_index,
                                                    dimension, phi)
              next == ABCAccept(positions, trials, bee, neighbour, features)
              fv == [k \in 1..population_size |->
                        ABC_calculate_fitness(next[1][k], features)]
          IN /\ new_solution' = neighbour
             /\ positions' = next[1]
             /\ trials' = next[2]
             /\ IF bee < population_size
                THEN /\ bee' = bee + 1
                     /\ UNCHANGED <<pc, fitness_values, probabilities, count>>
                ELSE /\ fitness_values' = fv
                     /\ probabilities' = ABC_probabilities(fv)
                     /\ bee' = 1
                     /\ count' = 0
                     /\ pc' = "onlooker"
    /\ UNCHANGED <<common_vars_but_pc, best_position, best_fitness>>
    /\ UNCHANGED <<not_abc_vars, convergence>>

\* _produce_new_solution in a colony of one: "while other_index == index"
\* draws the only index there is, again and again.
ABCSpin ==
    /\ alg = "abc" /\ pc = "employed" /\ population_size = 1
    /\ UNCHANGED <<common_vars, swarm_vars, abc_vars>>
    /\ UNCHANGED <<not_abc_vars, convergence>>

\* One pass of "while count < len(food_sources)" (lines 109-122).
ABCOnlooker ==
    /\ alg = "abc" /\ pc = "onlooker"
    /\ \/ \* random.random() < probabilities[i]
          /\ \E r \in RandomValues : r < probabilities[bee]
          /\ \E other_index \in (1..population_size) \ {bee}, dimension \in DimensionDraws(ABC_DIM),
                phi \in PhiValues :
                LET neighbour == ABC_produce_new_solution(positions, bee, other_index,
                                                          dimension, phi)
                    next == ABCAccept(positions, trials, bee, neighbour, features)
                IN /\ new_solution' = neighbour
                   /\ positions' = next[1]
                   /\ trials' = next[2]
          /\ count' = count + 1
          /\ pc' = IF count + 1 < population_size THEN "onlooker" ELSE "scout"
       \/ /\ \E r \in RandomValues : ~(r < probabilities[bee])
          /\ UNCHANGED <<new_solution, positions, trials, count, pc>>
    /\ bee' = (bee % population_size) + 1
    /\ UNCHANGED <<common_vars_but_pc, fitness_values, best_position, best_fitness,
                   probabilities>>
    /\ UNCHANGED <<not_abc_vars, convergence>>

\* The scout phase replacing the abandoned sources without resetting their
\* counters.
ABCScoutKeepsCounters ==
    /\ alg = "abc" /\ pc = "scout"
    /\ LET abandoned == {k \in 1..population_size : trials[k] > ABC_LIMIT}
       IN \E fresh \in [abandoned -> ABC_generate_random_solution(ABC_DIM)] :
             positions' = [k \in 1..population_size |->
                              IF k \in abandoned THEN fresh[k] ELSE positions[k]]
    /\ pc' = "track"
    /\ UNCHANGED <<common_vars_but_pc, fitness_values, best_position, best_fitness,
                   trials, probabilities, bee, count, new_solution>>
    /\ UNCHANGED <<not_abc_vars, convergence>>

\* The scout phase (lines 125-128).
ABCScout ==
    /\ alg = "abc" /\ pc = "scout"
    /\ LET abandoned == {k \in 1..population_size : trials[k] > ABC_LIMIT}
       IN \E fresh \in [abandoned -> ABC_generate_random_solution(ABC_DIM)] :
             /\ positions' = [k \in 1..population_size |->
                                 IF k \in abandoned THEN fresh[k] ELSE positions[k]]
             /\ trials' = [k \in 1..population_size |->
                              IF k \in abandoned THEN 0 ELSE trials[k]]
    /\ pc' = "track"
    /\ UNCHANGED <<common_vars_but_pc, fitness_values, best_position, best_fitness,
                   probabilities, bee, count, new_solution>>
    /\ UNCHANGED <<not_abc_vars, convergence>>

\* Lines 131-136: the best of fitness_values, and the source now at its index.
ABCTrackBest ==
    /\ alg = "abc" /\ pc = "track"
    /\ LET current_best_idx == ArgMaxNaN(fitness_values)
           current_best_fitness == fitness_values[current_best_idx]
       IN IF best_position = None \/ FloatGt(current_best_fitness, best_fitness)
          THEN /\ best_position' = positions[current_best_idx]
               /\ best_fitness' = current_best_fitness
          ELSE UNCHANGED <<best_position, best_fitness>>
    /\ convergence' = Append(convergence, best_fitness')
    /\ iteration' = iteration + 1
    /\ pc' = "loop"
    /\ UNCHANGED <<alg, logs, population_size, max_iterations, outcome, result,
                   features, log_mapping, positions, fitness_values, abc_vars>>
    /\ UNCHANGED not_abc_vars

\* Lines 139-146.  feature_vectors * None raises TypeError.
ABCSynthesize ==
    /\ alg = "abc" /\ pc = "synth"
    /\ IF best_position = None
       THEN outcome' = "raised" /\ UNCHANGED result
       ELSE LET e == ABC_evaluate_best_solution(best_position, logs, features)
            IN /\ result' = MakeResult("abc", e.overall_score, e.detected_anomalies,
                                       <<>>, <<>>, <<>>, best_fitness)
               /\ outcome' = "returned"
    /\ pc' = "done"
    /\ UNCHANGED <<alg, logs, population_size, max_iterations, iteration, features,
                   log_mapping, swarm_vars, abc_vars>>
    /\ UNCHANGED <<not_abc_vars, convergence>>

ABCNext == ABCStart \/ ABCLoop \/ ABCEmployed \/ ABCSpin \/ ABCOnlooker
           \/ ABCScout \/ ABCTrackBest \/ ABCSynthesize

-----------------------------------------------------------------------------
(* PSOLogAnalyzer (pso_test.py).                                           *)

PSO_DIM == 15

PSO_high_risk_locations == {"North Korea", "Russia", "Iran", "China", "Syria",
                            "Ukraine", "Belarus", "Iraq", "Venezuela"}
PSO_ports_very_high == {445, 135, 139, 4444, 1433}
PSO_ports_high == {22, 23, 3389, 21}
PSO_ports_medium == {25, 53, 5900, 8080, 8443}
PSO_suspicious_protocols == {"SMB", "Telnet", "RDP", "FTP", "IRC"}
PSO_malicious_processes == {"mimikatz", "pwdump", "wceaux", "lsass", "psexec", "winexe",
                            "wmiexec", "xmrig", "nmap", "sqlmap", "hydra", "medusa"}
PSO_suspicious_files == {"exe", "dll", "ps1", "bat", "sh", "py", "pl", "exploit",
                         "backdoor", "trojan", "keylog", "crack", "hack", "malware",
                         "ransom"}
PSO_attack_events == {"lateral_movement", "data_exfiltration", "privilege_escalation",
                      "brute_force"}

\* ip.startswith('192.168.') or ip.startswith('10.')
IsInternal(ip) == StartsWith(ip, "192.168.") \/ StartsWith(ip, "10.")

\* One feature_vector of _extract_features.
PSOFeatureVector(log) ==
    LET status == Lower(log.status)
        filename == Lower(log.filename)
        port == log.destination_port
    IN << IF log.location \in PSO_high_risk_locations THEN FP ELSE 0,
          IF log.source_ip # "" /\ ~IsInternal(log.source_ip) THEN FP ELSE 0,
          IF log.destination_ip # "" /\ ~IsInternal(log.destination_ip) THEN Tenth(7) ELSE 0,
          IF port \in PSO_ports_very_high THEN FP ELSE 0,
          IF port \notin PSO_ports_very_high /\ port \in PSO_ports_high THEN Tenth(8) ELSE 0,
          IF port \notin (PSO_ports_very_high \cup PSO_ports_high) /\ port \in PSO_ports_medium
          THEN Tenth(5) ELSE 0,
          IF log.protocol \in PSO_suspicious_protocols THEN Tenth(9) ELSE 0,
          IF ContainsAny(Lower(log.process_name), PSO_malicious_processes) THEN FP ELSE 0,
          IF filename # "" /\ ContainsAny(filename, PSO_suspicious_files) THEN Tenth(8) ELSE 0,
          IF log.event_type \in PSO_attack_events THEN FP ELSE 0,
          IF status = "failed" THEN Tenth(7) ELSE 0,
          IF log.event_type = "login" /\ status = "failed" THEN Tenth(9) ELSE 0,
          IF log.bytes_sent > 1000000 THEN Tenth(8) ELSE 0,
          IF log.bytes_received > 5000000 THEN Tenth(6) ELSE 0,
          IF log.bytes_received > 0 /\ log.bytes_sent > 10 * log.bytes_received
          THEN Tenth(7) ELSE 0 >>

\* The positions in logs whose feature vector has a positive sum, in order.
PSO_log_indices(ls) ==
    IndicesWhere([k \in 1..Len(ls) |-> SumSeq(PSOFeatureVector(ls[k])) > 0], 1)

\* _extract_features: (features, log_indices)
PSO_extract_features(ls) ==
    LET log_indices == PSO_log_indices(ls)
    IN [features |-> [n \in 1..Len(log_indices) |-> PSOFeatureVector(ls[log_indices[n]])],
        log_indices |-> log_indices]

\* np.mean(condition) over a score vector: the fraction of true entries.
Fraction(flags) == (Cardinality({k \in 1..Len(flags) : flags[k]}) * FP) \div Len(flags)

\* _calculate_risk_scores with each normalized score taken from 1.
PSO_complement_scores(position, feats) ==
    LET scores == NormalizeByMax([k \in 1..Len(feats) |-> Dot(feats[k], position)])
    IN [k \in 1..Len(feats) |-> FP - scores[k]]

\* _calculate_risk_scores
PSO_calculate_risk_scores(position, feats) ==
    NormalizeByMax([k \in 1..Len(feats) |-> Dot(feats[k], position)])

\* _evaluate_fitness
PSO_evaluate_fitness(position, feats) ==
    IF Len(feats) = 0 THEN 0
    ELSE
    LET risk_scores == PSO_calculate_risk_scores(position, feats)
        variance == Var(risk_scores)
        skewness == IF Len(risk_scores) > 2 /\ Std(risk_scores) > 0
                    THEN Skewness(risk_scores) ELSE 0
        high_risk_ratio == Fraction([k \in 1..Len(feats) |-> risk_scores[k] > Tenth(7)])
        medium_risk_ratio == Fraction([k \in 1..Len(feats) |->
                                 risk_scores[k] > Tenth(4) /\ risk_scores[k] <= Tenth(7)])
        threshold_quality == ((FP - Min2(high_risk_ratio * 10, FP)) * 6) \div 10
                             + (medium_risk_ratio * 4) \div 10
        feature_utilization == Tenth(5) - Std(position)
        key_feature_alignment ==
            Mean(<<position[1], position[4], position[8], position[10]>>)
    IN variance * 2 + Max2(0, skewness) + threshold_quality * 3 + feature_utilization
       + key_feature_alignment * 2

PSO_factor_descriptions ==
    << "High-risk location", "External source IP", "External destination IP",
       "Very high-risk port", "High-risk port", "Medium-risk port", "Suspicious protocol",
       "Malicious process", "Suspicious file", "Attack event type", "Failed status",
       "Failed login attempt", "Large outbound data transfer",
       "Large inbound data transfer", "Unusual data transfer ratio" >>

\* The first n items of a list: s[:n]
Take(s, n) == SubSeq(s, 1, Min2(n, Len(s)))

\* _get_factor_scores and _get_contributing_factors: at most five factors
\* whose contribution exceeds 0.01, the largest first.
PSO_get_contributing_factors(position, feature_vector) ==
    LET factor_scores == SortByScoreDesc([k \in 1..PSO_DIM |->
                             [idx |-> k, score |-> (position[k] * feature_vector[k]) \div FP]])
        Counts(f) == f.score > Hundredth(1)
        kept == SelectSeq(factor_scores, Counts)
    IN Take([n \in 1..Len(kept) |-> PSO_factor_descriptions[kept[n].idx]], 5)

\* _calculate_overall_risk
PSO_calculate_overall_risk(risk_scores, findings) ==
    IF Len(risk_scores) = 0 THEN 0
    ELSE
    LET max_risk == MaxSeq(risk_scores)
        high_risk_percentage ==
            Fraction([k \in 1..Len(risk_scores) |-> risk_scores[k] > Tenth(7)])
        attack_events == {n \in 1..Len(findings) :
                             findings[n].entry.event_type \in PSO_attack_events}
        attack_pattern_factor == (IF attack_events # {} THEN Tenth(3) ELSE 0)
                                 + (IF Len(findings) >= 3 THEN Tenth(2) ELSE 0)
        overall_risk == (max_risk * 4) \div 10
                        + (Min2(FP, high_risk_percentage * 3) * 3) \div 10
                        + (attack_pattern_factor * 3) \div 10
    IN Min2(FP, overall_risk)

\* analyze, lines 165-196: the findings and the overall risk of a best position.
PSO_synthesize(position, ls, feats, mapping) ==
    LET risk_scores == PSO_calculate_risk_scores(position, feats)
        high_risk_indices ==
            IndicesWhere([k \in 1..Len(feats) |-> risk_scores[k] > Tenth(6)], 1)
        findings == SortByScoreDesc([n \in 1..Len(high_risk_indices) |->
            LET idx == high_risk_indices[n]
                orig_idx == mapping[idx]
            IN [log_index |-> orig_idx,
                score |-> risk_scores[idx],
                entry |-> ls[orig_idx],
                reasons |-> PSO_get_contributing_factors(position, feats[idx])]])
    IN [overall_risk |-> PSO_calculate_overall_risk(risk_scores, findings),
        findings |-> findings]

\* What np.random.uniform(-0.1, 0.1, size=d) is modelled to return.
VelocityDraws(d) ==
    { [k \in 1..d |-> 0],
      [k \in 1..d |-> IF k % 2 = 1 THEN Hundredth(5) ELSE 0 - Hundredth(5)] }

\* The inertia weight of an iteration (line 125), for max_iterations > 0.
PSO_W_INIT == Tenth(9)
PSO_W_FINAL == Tenth(4)
PSO_inertia(it, budget) ==
    PSO_W_INIT - ((PSO_W_INIT - PSO_W_FINAL) * ((it * FP) \div budget)) \div FP

Abs(x) == IF x < 0 THEN 0 - x ELSE x

\* 0.001, the tolerance of the early stop
Epsilon == FP \div 1000

\* An early stop that opens its window two iterations too soon.
ConvergedSooner(it, path) ==
    it > 8 /\ Abs(path[Len(path)] - path[Len(path) - 9]) < Epsilon

\* Lines 162 and 187 (firefly): the early stop, after the trace was appended to.
Converged(it, path) ==
    it > 10 /\ Abs(path[Len(path)] - path[Len(path) - 9]) < Epsilon

\* analyze, lines 85-120.
PSOStart ==
    /\ alg = "pso" /\ pc = "start"
    /\ LET e == PSO_extract_features(logs)
       IN IF logs = <<>> \/ Len(e.features) = 0
          THEN /\ result' = EmptyResult("pso")
               /\ outcome' = "returned"
               /\ pc' = "done"
               /\ UNCHANGED <<features, log_mapping, positions, best_position,
                              best_fitness, pso_vars, convergence>>
          ELSE /\ features' = e.features
               /\ log_mapping' = e.log_indices
               /\ \E p \in [1..population_size -> UniformDraws(PSO_DIM)],
                     v \in [1..population_size -> VelocityDraws(PSO_DIM)] :
                     LET scores == [k \in 1..population_size |->
                                       PSO_evaluate_fitness(p[k], e.features)]
                         global_best_idx == ArgMax(scores)
                     IN /\ positions' = p
                        /\ velocities' = v
                        /\ personal_best_positions' = p
                        /\ personal_best_scores' = scores
                        /\ best_position' = p[global_best_idx]
                        /\ best_fitness' = scores[global_best_idx]
                        /\ convergence' = <<scores[global_best_idx]>>
               /\ pc' = "loop"
               /\ UNCHANGED <<result, outcome>>
    /\ UNCHANGED <<alg, logs, population_size, max_iterations, iteration,
                   fitness_values, bee>>
    /\ UNCHANGED not_pso_vars

\* for iteration in range(self.max_iterations)
PSOLoop ==
    /\ alg = "pso" /\ pc = "loop"
    /\ IF iteration < max_iterations
       THEN pc' = "particle" /\ bee' = 1
       ELSE pc' = "synth" /\ bee' = bee
    /\ UNCHANGED <<common_vars_but_pc, swarm_vars, pso_vars, convergence>>
    /\ UNCHANGED not_pso_vars

\* The pass of the particle loop with the personal best set to every new score.
PSOParticleTakesEveryScore ==
    /\ alg = "pso" /\ pc = "particle"
    /\ \E r1 \in UnitGrid, r2 \in UnitGrid :
          LET i == bee
              w == PSO_inertia(iteration, max_iterations)
              velocity == [k \in 1..PSO_DIM |->
                  Clip((w * velocities[i][k]) \div FP
                       + (2 * r1 * (personal_best_positions[i][k] - positions[i][k])) \div FP
                       + (2 * r2 * (best_position[k] - positions[i][k])) \div FP,
                       0 - Tenth(5), Tenth(5))]
              position == [k \in 1..PSO_DIM |-> Clip(positions[i][k] + velocity[k], 0, FP)]
              current_score == PSO_evaluate_fitness(position, features)
              better == TRUE
              best == better /\ current_score > best_fitness
              global_best_score == IF best THEN current_score ELSE best_fitness
              path == Append(convergence, global_best_score)
          IN /\ velocities' = [velocities EXCEPT ![i] = velocity]
             /\ positions' = [positions EXCEPT ![i] = position]
             /\ personal_best_scores' =
                   IF better THEN [personal_best_scores EXCEPT ![i] = current_score]
                   ELSE personal_best_scores
             /\ personal_best_positions' =
                   IF better THEN [personal_best_positions EXCEPT ![i] = position]
                   ELSE personal_best_positions
             /\ best_fitness' = global_best_score
             /\ best_position' = IF best THEN position ELSE best_position
             /\ IF i < population_size
                THEN /\ bee' = i + 1
                     /\ UNCHANGED <<pc, iteration, convergence>>
                ELSE /\ bee' = i
                     /\ convergence' = path
                     /\ iteration' = iteration + 1
                     /\ pc' = IF Converged(iteration, path) THEN "synth" ELSE "loop"
    /\ UNCHANGED <<alg, logs, population_size, max_iterations, outcome, result,
                   features, log_mapping, fitness_values>>
    /\ UNCHANGED not_pso_vars

\* The pass of the particle loop with the velocity limited to [-1, 1].
PSOParticleWideVelocity ==
    /\ alg = "pso" /\ pc = "particle"
    /\ \E r1 \in UnitGrid, r2 \in UnitGrid :
          LET i == bee
              w == PSO_inertia(iteration, max_iterations)
              velocity == [k \in 1..PSO_DIM |->
                  Clip((w * velocities[i][k]) \div FP
                       + (2 * r1 * (personal_best_positions[i][k] - positions[i][k])) \div FP
                       + (2 * r2 * (best_position[k] - positions[i][k])) \div FP,
                       0 - FP, FP)]
              position == [k \in 1..PSO_DIM |-> Clip(positions[i][k] + velocity[k], 0, FP)]
              current_score == PSO_evaluate_fitness(position, features)
              better == current_score > personal_best_scores[i]
              best == better /\ current_score > best_fitness
              global_best_score == IF best THEN current_score ELSE best_fitness
              path == Append(convergence, global_best_score)
          IN /\ velocities' = [velocities EXCEPT ![i] = velocity]
             /\ positions' = [positions EXCEPT ![i] = position]
             /\ personal_best_scores' =
                   IF better THEN [personal_best_scores EXCEPT ![i] = current_score]
                   ELSE personal_best_scores
             /\ personal_best_positions' =
                   IF better THEN [personal_best_positions EXCEPT ![i] = position]
                   ELSE personal_best_positions
             /\ best_fitness' = global_best_score
             /\ best_position' = IF best THEN position ELSE best_position
             /\ IF i < population_size
                THEN /\ bee' = i + 1
                     /\ UNCHANGED <<pc, iteration, convergence>>
                ELSE /\ bee' = i
                     /\ convergence' = path
                     /\ iteration' = iteration + 1
                     /\ pc' = IF Converged(iteration, path) THEN "synth" ELSE "loop"
    /\ UNCHANGED <<alg, logs, population_size, max_iterations, outcome, result,
                   features, log_mapping, fitness_values>>
    /\ UNCHANGED not_pso_vars

\* One pass of "for i in range(self.n_particles)" (lines 128-156); after the
\* last particle, lines 158-163.
PSOParticle ==
    /\ alg = "pso" /\ pc = "particle"
    /\ \E r1 \in UnitGrid, r2 \in UnitGrid :
          LET i == bee
              w == PSO_inertia(iteration, max_iterations)
              velocity == [k \in 1..PSO_DIM |->
                  Clip((w * velocities[i][k]) \div FP
                       + (2 * r1 * (personal_best_positions[i][k] - positions[i][k])) \div FP
                       + (2 * r2 * (best_position[k] - positions[i][k])) \div FP,
                       0 - Tenth(5), Tenth(5))]
              position == [k \in 1..PSO_DIM |-> Clip(positions[i][k] + velocity[k], 0, FP)]
              current_score == PSO_evaluate_fitness(position, features)
              better == current_score > personal_best_scores[i]
              best == better /\ current_score > best_fitness
              global_best_score == IF best THEN current_score ELSE best_fitness
              path == Append(convergence, global_best_score)
          IN /\ velocities' = [velocities EXCEPT ![i] = velocity]
             /\ positions' = [positions EXCEPT ![i] = position]
             /\ personal_best_scores' =
                   IF better THEN [personal_best_scores EXCEPT ![i] = current_score]
                   ELSE personal_best_scores
             /\ personal_best_positions' =
                   IF better THEN [personal_best_positions EXCEPT ![i] = position]
                   ELSE personal_best_positions
             /\ best_fitness' = global_best_score
             /\ best_position' = IF best THEN position ELSE best_position
             /\ IF i < population_size
                THEN /\ bee' = i + 1
                     /\ UNCHANGED <<pc, iteration, convergence>>
                ELSE /\ bee' = i
                     /\ convergence' = path
                     /\ iteration' = iteration + 1
                     /\ pc' = IF Converged(iteration, path) THEN "synth" ELSE "loop"
    /\ UNCHANGED <<alg, logs, population_size, max_iterations, outcome, result,
                   features, log_mapping, fitness_values>>
    /\ UNCHANGED not_pso_vars

\* Lines 165-204.
PSOSynthesize ==
    /\ alg = "pso" /\ pc = "synth"
    /\ LET e == PSO_synthesize(best_position, logs, features, log_mapping)
       IN result' = MakeResult("pso", e.overall_risk, e.findings, <<>>, <<>>,
                               convergence, best_fitness)
    /\ outcome' = "returned"
    /\ pc' = "done"
    /\ UNCHANGED <<alg, logs, population_size, max_iterations, iteration, features,
                   log_mapping, swarm_vars, bee, pso_vars, convergence>>
    /\ UNCHANGED not_pso_vars

PSONext == PSOStart \/ PSOLoop \/ PSOParticle \/ PSOSynthesize

-----------------------------------------------------------------------------
(* FireflyLogAnalyzer (firefly_test.py).                                   *)

FIREFLY_DIM == 16

FF_high_risk_locations == {"North Korea", "Russia", "Iran", "China", "Syria",
                           "Ukraine", "Belarus", "Iraq", "Venezuela"}
FF_ports_critical == {445, 135, 139, 1433, 1434}
FF_ports_high == {22, 23, 3389, 5900, 137, 138}
FF_ports_medium == {21, 25, 110, 8080, 8443}
FF_suspicious_protocols == {"SMB", "Telnet", "RDP", "FTP", "IRC"}
FF_malicious_processes == {"mimikatz", "pwdump", "psexec", "lazagne", "netcat", "wce",
                           "procdump", "wmiexec", "cain", "hydra"}
FF_suspicious_files == {".exe", ".dll", ".bat", ".ps1", ".vbs", ".js", "exploit", "hack",
                        "crack", "trojan", "backdoor", "keylog", "ransom", "crypt",
                        "worm", "rat"}
FF_events_critical == {"data_exfiltration", "lateral_movement", "privilege_escalation"}
FF_events_high == {"brute_force", "file_download", "port_scan"}
FF_events_medium == {"login", "access", "network_scan"}
FF_suspicious_hours == {0, 1, 2, 3, 4, 22, 23}

\* ip.startswith(('10.', '172.16.', '192.168.'))
IsPrivatePrefix(ip) ==
    StartsWith(ip, "10.") \/ StartsWith(ip, "172.16.") \/ StartsWith(ip, "192.168.")

\* Lines 264-274: the time risk.  A timestamp that does not parse is passed over.
FF_time_risk(log) ==
    LET timestamp == GetTimestamp(log)
        dt == fromisoformat(timestamp)
    IN timestamp # "" /\ dt.valid /\ dt.hour \in FF_suspicious_hours

\* One feature_vector of _extract_features.
FireflyFeatureVector(log) ==
    LET B(b) == IF b THEN FP ELSE 0
        port == log.destination_port
        event_type == log.event_type
        failed == Lower(log.status) = "failed"
    IN << B(log.location \in FF_high_risk_locations),
          B(FF_time_risk(log)),
          B(log.protocol \in FF_suspicious_protocols),
          B(port \in FF_ports_critical),
          B(port \notin FF_ports_critical /\ port \in FF_ports_high),
          B(port \notin (FF_ports_critical \cup FF_ports_high) /\ port \in FF_ports_medium),
          B(ContainsAny(Lower(log.process_name), FF_malicious_processes)),
          B(ContainsAny(Lower(log.filename), FF_suspicious_files)),
          B(event_type \in FF_events_critical),
          B(event_type \notin FF_events_critical /\ event_type \in FF_events_high),
          B(event_type \notin (FF_events_critical \cup FF_events_high)
            /\ event_type \in FF_events_medium),
          B(failed),
          B(\/ log.source_ip # "" /\ ~IsPrivatePrefix(log.source_ip)
            \/ log.destination_ip # "" /\ ~IsPrivatePrefix(log.destination_ip)),
          B(\/ log.bytes_sent > 1000000
            \/ log.bytes_received > 5000000
            \/ log.bytes_received > 0 /\ log.bytes_sent > 10 * log.bytes_received),
          B(Lower(log.username) \in {"admin", "administrator", "root", "system", "superuser"}),
          B(event_type = "login" /\ failed) >>

\* _extract_features: (features, log_indices)
FF_extract_features(ls) ==
    LET log_indices ==
            IndicesWhere([k \in 1..Len(ls) |-> SumSeq(FireflyFeatureVector(ls[k])) > 0], 1)
    IN [features |-> [n \in 1..Len(log_indices) |-> FireflyFeatureVector(ls[log_indices[n]])],
        log_indices |-> log_indices]

\* _calculate_alert_scores
FF_calculate_alert_scores(position, feats) ==
    NormalizeByMax([k \in 1..Len(feats) |-> Dot(feats[k], position)])

\* _evaluate_fitness
FF_evaluate_fitness(position, feats) ==
    IF Len(feats) = 0 THEN 0
    ELSE
    LET scores == FF_calculate_alert_scores(position, feats)
        variance == Var(scores)
        skewness == IF Len(scores) > 2 /\ Std(scores) > 0 THEN Skewness(scores) ELSE 0
        high_ratio == Fraction([k \in 1..Len(feats) |-> scores[k] > Tenth(7)])
        ratio_quality ==
            IF high_ratio > 0 /\ high_ratio <= Hundredth(15)
            THEN FP - (Abs(Hundredth(7) - high_ratio) * FP) \div Hundredth(7)
            ELSE IF high_ratio > Hundredth(15)
            THEN Max2(0, FP - (high_ratio - Hundredth(15)) * 5)
            ELSE 0
        critical_weight_sum == position[1] + position[4] + position[7] + position[9]
                               + position[12] + position[16]
        total_weight_sum == SumSeq(position)
        feature_alignment == IF total_weight_sum > 0
                             THEN (critical_weight_sum * FP) \div total_weight_sum ELSE 0
    IN variance * 2 + (Max2(0, skewness) * 15) \div 10 + ratio_quality * 3
       + (feature_alignment * 25) \div 10

FF_factor_descriptions ==
    << "High-risk location", "Suspicious time (non-business hours)", "Suspicious protocol",
       "Critical port", "High-risk port", "Medium-risk port", "Malicious process detected",
       "Suspicious filename", "Critical security event", "High-risk security event",
       "Medium-risk security event", "Failed operation", "External IP communication",
       "Unusual data transfer", "Privileged username", "Failed authentication" >>

\* _get_factor_contributions and _describe_alert_factors
FF_describe_alert_factors(position, feature_vector) ==
    LET Present(k) == feature_vector[k] > 0
        present == SelectSeq([k \in 1..FIREFLY_DIM |-> k], Present)
        contributions == SortByScoreDesc([n \in 1..Len(present) |->
            [idx |-> present[n],
             score |-> (position[present[n]] * feature_vector[present[n]]) \div FP]])
        Counts(f) == f.score > Hundredth(1)
        kept == SelectSeq(contributions, Counts)
    IN Take([n \in 1..Len(kept) |-> FF_factor_descriptions[kept[n].idx]], 5)

\* A suspicious pattern, with the keys every detector reports.
Pattern(pattern_type, severity, log_indices) ==
    [pattern_type |-> pattern_type, severity |-> severity, log_indices |-> log_indices]

\* _detect_brute_force: <<the pattern>>, or <<>> for None.
FF_detect_brute_force(ls, critical_indices) ==
    LET IsFailedLogin(i) == /\ ls[i].event_type = "login"
                            /\ Lower(ls[i].status) = "failed"
                            /\ ls[i].source_ip # ""
        failed_logins == SelectSeq(critical_indices, IsFailedLogin)
        Group(ip) == LET From(i) == ls[i].source_ip = ip
                     IN SelectSeq(failed_logins, From)
        Large(i) == Len(Group(ls[i].source_ip)) >= 3
        hits == SelectSeq(failed_logins, Large)
    IN IF hits = <<>> THEN <<>>
       ELSE <<Pattern("brute_force", Tenth(8), Group(ls[hits[1]].source_ip))>>

\* The four detectors that report every critical event passing one test.
FF_detect_where(ls, critical_indices, pattern_type, severity, Test(_)) ==
    LET Hit(i) == Test(ls[i])
        hits == SelectSeq(critical_indices, Hit)
    IN IF hits = <<>> THEN <<>> ELSE <<Pattern(pattern_type, severity, hits)>>

\* _identify_suspicious_patterns
FF_identify_suspicious_patterns(ls, critical_events) ==
    LET critical_indices == [n \in 1..Len(critical_events) |-> critical_events[n].log_index]
        LargeTransfer(log) == log.bytes_sent > 1000000
        Lateral(log) == log.event_type = "lateral_movement"
        Scan(log) == log.event_type = "port_scan"
        Privesc(log) == log.event_type = "privilege_escalation"
    IN IF Len(critical_events) < 2 THEN <<>>
       ELSE FF_detect_brute_force(ls, critical_indices)
            \o FF_detect_where(ls, critical_indices, "data_exfiltration", Hundredth(85),
                               LargeTransfer)
            \o FF_detect_where(ls, critical_indices, "lateral_movement", Tenth(9), Lateral)
            \o FF_detect_where(ls, critical_indices, "scanning", Hundredth(75), Scan)
            \o FF_detect_where(ls, critical_indices, "privilege_escalation", Tenth(9),
                               Privesc)

\* _calculate_overall_alert with its three factors added as they are, without
\* weights or cap.
FF_overall_alert_unweighted(alert_scores, critical_events, suspicious_patterns) ==
    IF Len(alert_scores) = 0 THEN 0
    ELSE MaxSeq(alert_scores)
         + Min2(FP, ((Len(critical_events) * FP) \div Len(alert_scores)) * 5)
         + (IF suspicious_patterns = <<>> THEN 0
            ELSE MaxSeq([n \in 1..Len(suspicious_patterns) |-> suspicious_patterns[n].severity]))

\* _calculate_overall_alert
FF_calculate_overall_alert(alert_scores, critical_events, suspicious_patterns) ==
    IF Len(alert_scores) = 0 THEN 0
    ELSE
    LET max_score == MaxSeq(alert_scores)
        critical_percentage == (Len(critical_events) * FP) \div Len(alert_scores)
        critical_factor == Min2(FP, critical_percentage * 5)
        pattern_severity ==
            IF suspicious_patterns = <<>> THEN 0
            ELSE MaxSeq([n \in 1..Len(suspicious_patterns) |-> suspicious_patterns[n].severity])
        overall_score == (max_score * 35) \div 100 + (critical_factor * 25) \div 100
                         + (pattern_severity * 4) \div 10
    IN Min2(FP, overall_score)

FF_THRESHOLD == Hundredth(65)

\* analyze, lines 190-224.
FF_synthesize(position, ls, feats, mapping) ==
    LET alert_scores == FF_calculate_alert_scores(position, feats)
        critical_indices ==
            IndicesWhere([k \in 1..Len(feats) |-> alert_scores[k] > FF_THRESHOLD], 1)
        critical_events == SortByScoreDesc([n \in 1..Len(critical_indices) |->
            LET idx == critical_indices[n]
                orig_idx == mapping[idx]
            IN [log_index |-> orig_idx,
                score |-> alert_scores[idx],
                entry |-> ls[orig_idx],
                reasons |-> FF_describe_alert_factors(position, feats[idx])]])
        suspicious_patterns == FF_identify_suspicious_patterns(ls, critical_events)
    IN [overall_alert |-> FF_calculate_overall_alert(alert_scores, critical_events,
                                                     suspicious_patterns),
        critical_events |-> critical_events,
        suspicious_patterns |-> suspicious_patterns]

\* math.exp(-x) for x >= 0, by the series of exp(x) to the fourth power;
\* past x = 4 the value of x = 4 (about 0.03) stands for the remaining tail.
ExpNeg(x) ==
    LET y == Min2(x, 4 * FP)
        y2 == (y * y) \div FP
        y3 == (y2 * y) \div FP
        y4 == (y3 * y) \div FP
    IN (FP * FP) \div (FP + y + y2 \div 2 + y3 \div 6 + y4 \div 24)

FF_ALPHA == Tenth(5)
FF_ALPHA_DECAY == Hundredth(97)
FF_BETA0 == FP
FF_GAMMA == Tenth(5)

\* alpha after it rounds of "alpha *= self.alpha_decay"
RECURSIVE FF_alpha(_)
FF_alpha(it) == IF it = 0 THEN FF_ALPHA ELSE (FF_alpha(it - 1) * FF_ALPHA_DECAY) \div FP

\* What np.random.rand(d) is modelled to return.
RandDraws(d) ==
    { [k \in 1..d |-> Tenth(5)],
      [k \in 1..d |-> IF k % 2 = 1 THEN 0 ELSE FP - 1] }

\* np.argsort(-brightness), then lines 145-146: brightest first, ties in order.
FF_sort(flies, brightness) ==
    SortByScoreDesc([k \in 1..Len(flies) |-> [position |-> flies[k], score |-> brightness[k]]])

\* The pull of line 161-162 on firefly j from firefly i, with its random vector.
FF_pull(fi, fj, alpha, rand) ==
    LET distance2 == SumSeq([k \in 1..Len(fi) |-> (fi[k] - fj[k]) * (fi[k] - fj[k])]) \div FP
        beta == (FF_BETA0 * ExpNeg((FF_GAMMA * distance2) \div FP)) \div FP
    IN [k \in 1..Len(fi) |-> (beta * (fi[k] - fj[k])) \div FP
                             + (alpha * (rand[k] - Tenth(5))) \div FP]

\* Lines 149-165: every firefly j moved once for every i < j, then clipped.
\* rand[<<i, j>>] is the random vector of the pair.
FF_move(sorted, alpha, rand) ==
    [j \in 1..Len(sorted) |->
        [k \in 1..FIREFLY_DIM |->
            Clip(sorted[j].position[k]
                 + SumSeq([i \in 1..(j - 1) |->
                       FF_pull(sorted[i].position, sorted[j].position, alpha,
                               rand[<<i, j>>])[k]]),
                 0, FP)]]

\* analyze, lines 105-138, with the trace begun at the first firefly's brightness.
FireflyStartTracesFirst ==
    /\ alg = "firefly" /\ pc = "start"
    /\ LET e == FF_extract_features(logs)
       IN IF logs = <<>> \/ Len(e.features) = 0
          THEN /\ result' = EmptyResult("firefly")
               /\ outcome' = "returned"
               /\ pc' = "done"
               /\ UNCHANGED <<features, log_mapping, swarm_vars, convergence>>
          ELSE /\ features' = e.features
               /\ log_mapping' = e.log_indices
               /\ \E fireflies \in [1..population_size -> UniformDraws(FIREFLY_DIM)] :
                     LET brightness == [k \in 1..population_size |->
                                           FF_evaluate_fitness(fireflies[k], e.features)]
                         best_idx == ArgMax(brightness)
                     IN /\ positions' = fireflies
                        /\ fitness_values' = brightness
                        /\ best_position' = fireflies[best_idx]
                        /\ best_fitness' = brightness[best_idx]
                        /\ convergence' = <<brightness[1]>>
               /\ pc' = "loop"
               /\ UNCHANGED <<result, outcome>>
    /\ UNCHANGED <<alg, logs, population_size, max_iterations, iteration>>
    /\ UNCHANGED not_firefly_vars

\* analyze, lines 105-138.
FireflyStart ==
    /\ alg = "firefly" /\ pc = "start"
    /\ LET e == FF_extract_features(logs)
       IN IF logs = <<>> \/ Len(e.features) = 0
          THEN /\ result' = EmptyResult("firefly")
               /\ outcome' = "returned"
               /\ pc' = "done"
               /\ UNCHANGED <<features, log_mapping, swarm_vars, convergence>>
          ELSE /\ features' = e.features
               /\ log_mapping' = e.log_indices
               /\ \E fireflies \in [1..population_size -> UniformDraws(FIREFLY_DIM)] :
                     LET brightness == [k \in 1..population_size |->
                                           FF_evaluate_fitness(fireflies[k], e.features)]
                         best_idx == ArgMax(brightness)
                     IN /\ positions' = fireflies
                        /\ fitness_values' = brightness
                        /\ best_position' = fireflies[best_idx]
                        /\ best_fitness' = brightness[best_idx]
                        /\ convergence' = <<brightness[best_idx]>>
               /\ pc' = "loop"
               /\ UNCHANGED <<result, outcome>>
    /\ UNCHANGED <<alg, logs, population_size, max_iterations, iteration>>
    /\ UNCHANGED not_firefly_vars

\* for iteration in range(self.max_iterations)
FireflyLoop ==
    /\ alg = "firefly" /\ pc = "loop"
    /\ pc' = IF iteration < max_iterations THEN "move" ELSE "synth"
    /\ UNCHANGED <<common_vars_but_pc, swarm_vars, convergence>>
    /\ UNCHANGED not_firefly_vars

\* One iteration of the main loop (lines 143-188).
FireflyMove ==
    /\ alg = "firefly" /\ pc = "move"
    /\ LET n == population_size
           pairs == {ij \in (1..n) \X (1..n) : ij[1] < ij[2]}
           sorted == FF_sort(positions, fitness_values)
       IN \E rand \in [pairs -> RandDraws(FIREFLY_DIM)] :
             LET new_fireflies == FF_move(sorted, FF_alpha(iteration), rand)
                 new_brightness == [k \in 1..n |->
                                       FF_evaluate_fitness(new_fireflies[k], features)]
                 current_best_idx == ArgMax(new_brightness)
                 better == new_brightness[current_best_idx] > best_fitness
                 fitness == IF better THEN new_brightness[current_best_idx]
                            ELSE best_fitness
                 path == Append(convergence, fitness)
             IN /\ positions' = new_fireflies
                /\ fitness_values' = new_brightness
                /\ best_position' = IF better THEN new_fireflies[current_best_idx]
                                    ELSE best_position
                /\ best_fitness' = fitness
                /\ convergence' = path
                /\ iteration' = iteration + 1
                /\ pc' = IF Converged(iteration, path) THEN "synth" ELSE "loop"
    /\ UNCHANGED <<alg, logs, population_size, max_iterations, outcome, result,
                   features, log_mapping>>
    /\ UNCHANGED not_firefly_vars

\* Lines 190-232.
FireflySynthesize ==
    /\ alg = "firefly" /\ pc = "synth"
    /\ LET e == FF_synthesize(best_position, logs, features, log_mapping)
       IN result' = MakeResult("firefly", e.overall_alert, e.critical_events,
                               e.suspicious_patterns, <<>>, convergence, best_fitness)
    /\ outcome' = "returned"
    /\ pc' = "done"
    /\ UNCHANGED <<alg, logs, population_size, max_iterations, iteration, features,
                   log_mapping, swarm_vars, convergence>>
    /\ UNCHANGED not_firefly_vars

FireflyNext == FireflyStart \/ FireflyLoop \/ FireflyMove \/ FireflySynthesize

-----------------------------------------------------------------------------
(* FSSLogAnalyzer (fss_test.py).                                           *)

FSS_DIM == 12

FSS_high_risk_locations == {"North Korea", "Russia", "Iran", "China", "Syria"}
FSS_medium_risk_locations == {"Ukraine", "Belarus", "Vietnam", "Nigeria", "Brazil"}
FSS_high_risk_ports == {22, 23, 445, 3389, 135, 139, 1433, 4444}
FSS_high_risk_protocols == {"SMB", "Telnet", "RDP", "SSH", "FTP"}
FSS_suspicious_processes == {"ssh_brute", "mal_downloader", "worm.exe", "exploit",
                             "mimikatz", "pwdump", "scan", "crack"}
FSS_suspicious_file_patterns == {"exploit", "toolkit", "malware", "hack", "crack",
                                 "trojan", "worm", "virus", "ransom", "backdoor"}
FSS_sensitive_actions == {"lateral_movement", "data_exfiltration", "privilege_escalation"}

\* One feature_vector of _extract_features.
FSSFeatureVector(log) ==
    LET B(b) == IF b THEN FP ELSE 0
        failed == Lower(log.status) = "failed"
        src_ip == log.source_ip
        dst_ip == log.destination_ip
    IN << B(log.location \in FSS_high_risk_locations),
          B(log.location \notin FSS_high_risk_locations
            /\ log.location \in FSS_medium_risk_locations),
          B(log.destination_port \in FSS_high_risk_ports),
          B(log.protocol \in FSS_high_risk_protocols),
          B(ContainsAny(Lower(log.process_name), FSS_suspicious_processes)),
          B(ContainsAny(Lower(log.filename), FSS_suspicious_file_patterns)),
          B(failed),
          B(log.bytes_sent > 100000 \/ log.bytes_received > 1000000),
          B(log.event_type = "login" /\ failed),
          0,
          B(log.event_type \in FSS_sensitive_actions),
          B(\/ StartsWith(src_ip, "192.168.") /\ ~StartsWith(dst_ip, "192.168.")
            \/ StartsWith(src_ip, "10.") /\ ~StartsWith(dst_ip, "10.")) >>

\* _extract_features: an entry with neither a source_ip nor an event_type is
\* skipped (lines 293-295); (features, log_indices)
FSS_extract_features(ls) ==
    LET log_indices ==
            IndicesWhere([k \in 1..Len(ls) |->
                             ~(ls[k].source_ip = "" /\ ls[k].event_type = "")], 1)
    IN [features |-> [n \in 1..Len(log_indices) |-> FSSFeatureVector(ls[log_indices[n]])],
        log_indices |-> log_indices]

\* _calculate_anomaly_scores
FSS_calculate_anomaly_scores(position, feats) ==
    NormalizeByMax([k \in 1..Len(feats) |-> Dot(feats[k], position)])

\* _evaluate_fitness
FSS_evaluate_fitness(position, feats) ==
    IF Len(feats) = 0 THEN 0
    ELSE
    LET anomaly_scores == FSS_calculate_anomaly_scores(position, feats)
        variance == Var(anomaly_scores)
        skew == IF Len(anomaly_scores) > 2 /\ Std(anomaly_scores) > 0
                THEN Skewness(anomaly_scores) ELSE 0
        critical_weight_sum == position[1] + position[3] + position[4] + position[5]
                               + position[11]
        weight_balance == IF SumSeq(position) > 0
                          THEN (critical_weight_sum * FP) \div SumSeq(position) ELSE 0
        excess_ratio == Fraction([k \in 1..Len(feats) |-> anomaly_scores[k] > Tenth(7)])
        excess_penalty == FP - Min2(FP, excess_ratio * 5)
    IN variance + Max2(0, skew) \div 2 + (weight_balance * 8) \div 10
       + (excess_penalty * 7) \div 10

\* _determine_anomaly_reasons: only weights above 0.5 give a reason.
FSS_determine_anomaly_reasons(log, position) ==
    LET R(b, reason) == IF b THEN <<reason>> ELSE <<>>
        Heavy(k) == position[k] > Tenth(5)
    IN R(Heavy(1) /\ log.location \in FSS_high_risk_locations, "High-risk location")
       \o R(Heavy(3) /\ log.destination_port \in FSS_high_risk_ports, "High-risk port")
       \o R(Heavy(4) /\ log.protocol \in FSS_high_risk_protocols, "Suspicious protocol")
       \o R(Heavy(5) /\ ContainsAny(Lower(log.process_name), FSS_suspicious_processes),
            "Suspicious process")
       \o R(Heavy(6) /\ ContainsAny(Lower(log.filename), FSS_suspicious_file_patterns),
            "Suspicious filename")
       \o R(Heavy(7) /\ Lower(log.status) = "failed", "Failed operation")
       \o R(Heavy(8) /\ log.bytes_sent > 100000, "Large outbound transfer")
       \o R(Heavy(8) /\ log.bytes_received > 1000000, "Large inbound transfer")
       \o R(Heavy(11) /\ log.event_type \in FSS_sensitive_actions, "Sensitive action")

\* analyze, lines 226-274.
FSS_synthesize(position, fitness, ls, feats, mapping) ==
    LET anomaly_scores == FSS_calculate_anomaly_scores(position, feats)
        priority_indices ==
            IndicesWhere([k \in 1..Len(feats) |-> anomaly_scores[k] > Tenth(6)], 1)
        priority_events == SortByScoreDesc([n \in 1..Len(priority_indices) |->
            LET idx == priority_indices[n]
                log_index == mapping[idx]
            IN [log_index |-> log_index,
                score |-> anomaly_scores[idx],
                entry |-> ls[log_index],
                reasons |-> FSS_determine_anomaly_reasons(ls[log_index], position)]])
        max_anomaly == MaxSeq(anomaly_scores)
        perc_anomalous == (Len(priority_indices) * FP) \div Len(ls)
        overall == max_anomaly \div 2 + (perc_anomalous * 3) \div 10 + (fitness * 2) \div 10
    IN [overall_anomaly_score |-> Min2(FP, overall), priority_events |-> priority_events]

\* np.linalg.norm
Norm(v) == FSqrt(SumSeq([k \in 1..Len(v) |-> v[k] * v[k]]) \div FP)

\* v / norm(v) if norm(v) > 0 else v
Unit(v) == LET n == Norm(v)
           IN IF n > 0 THEN [k \in 1..Len(v) |-> (v[k] * FP) \div n] ELSE v

\* What np.random.uniform(-1, 1, size=d) is modelled to return.
DirectionDraws(d) ==
    { [k \in 1..d |-> 0],
      [k \in 1..d |-> IF k = 1 THEN Tenth(6) ELSE 0],
      [k \in 1..d |-> IF k % 2 = 1 THEN 0 - Tenth(5) ELSE Tenth(5)] }

FSS_STEP_IND_INIT == Tenth(1)
FSS_STEP_IND_FINAL == FP \div 1000
FSS_STEP_VOL_INIT == Tenth(1)
FSS_STEP_VOL_FINAL == Hundredth(1)
FSS_STEP_COL == Tenth(1)
FSS_WEIGHT_SCALE == 10 * FP

\* Lines 111-113: a step size of an iteration, for iterations > 0.
FSS_step(init, final, it, budget) ==
    init - (((it * FP) \div budget) * (init - final)) \div FP

\* Lines 149-218: what follows the individual movements of an iteration.
\* new_positions and positions name one array from line 149 on.
FSS_collective(new_positions, fitness, old_weights, feats, step_vol) ==
    LET n == Len(new_positions)
        applied == new_positions
        deltas == [i \in 1..n |-> fitness[i] - FSS_evaluate_fitness(applied[i], feats)]
        new_weights == [i \in 1..n |-> Clip(old_weights[i] + deltas[i], FP, FSS_WEIGHT_SCALE)]
        total_weight == SumSeq(new_weights)
        barycenter ==
            IF total_weight > 0
            THEN [k \in 1..FSS_DIM |->
                     SumSeq([i \in 1..n |-> applied[i][k] * new_weights[i]]) \div total_weight]
            ELSE [k \in 1..FSS_DIM |-> Mean([i \in 1..n |-> applied[i][k]])]
        col_direction ==
            IF SumSeq(deltas) > 0
            THEN [k \in 1..FSS_DIM |->
                     SumSeq([i \in 1..n |-> (new_positions[i][k] - applied[i][k]) * deltas[i]])
                     \div SumSeq(deltas)]
            ELSE [k \in 1..FSS_DIM |-> 0]
        instinctive ==
            IF Norm(col_direction) > 0
            THEN [i \in 1..n |-> [k \in 1..FSS_DIM |->
                     Clip(applied[i][k] + (Unit(col_direction)[k] * FSS_STEP_COL) \div FP,
                          0, FP)]]
            ELSE applied
        prev_total_weight == total_weight - SumSeq(deltas)
        sign == IF total_weight > prev_total_weight THEN 1 ELSE 0 - 1
        volitive == [i \in 1..n |->
            LET direction == [k \in 1..FSS_DIM |-> sign * (instinctive[i][k] - barycenter[k])]
            IN IF Norm(direction) > 0
               THEN [k \in 1..FSS_DIM |->
                        instinctive[i][k] + (Unit(direction)[k] * step_vol) \div FP]
               ELSE instinctive[i]]
    IN [positions |-> [i \in 1..n |-> [k \in 1..FSS_DIM |-> Clip(volitive[i][k], 0, FP)]],
        weights |-> new_weights,
        weight_deltas |-> deltas]

\* analyze, lines 81-106.
FSSStart ==
    /\ alg = "fss" /\ pc = "start"
    /\ LET e == FSS_extract_features(logs)
       IN IF logs = <<>> \/ Len(e.features) = 0
          THEN /\ result' = EmptyResult("fss")
               /\ outcome' = "returned"
               /\ pc' = "done"
               /\ UNCHANGED <<features, log_mapping, positions, weights, convergence>>
          ELSE /\ features' = e.features
               /\ log_mapping' = e.log_indices
               /\ positions' \in [1..population_size -> UniformDraws(FSS_DIM)]
               /\ weights' = [k \in 1..population_size |-> FSS_WEIGHT_SCALE \div 2]
               /\ UNCHANGED convergence
               /\ pc' = "loop"
               /\ UNCHANGED <<result, outcome>>
    /\ UNCHANGED <<alg, logs, population_size, max_iterations, iteration,
                   fitness_values, best_position, best_fitness, weight_deltas,
                   fitness_gains, bee>>
    /\ UNCHANGED not_fss_vars

\* for iteration in range(self.iterations), and line 120
FSSLoop ==
    /\ alg = "fss" /\ pc = "loop"
    /\ IF iteration < max_iterations
       THEN /\ pc' = "fish"
            /\ bee' = 1
            /\ fitness_values' = [k \in 1..population_size |-> 0]
            /\ fitness_gains' = [k \in 1..population_size |-> 0]
       ELSE /\ pc' = "synth"
            /\ UNCHANGED <<bee, fitness_values, fitness_gains>>
    /\ UNCHANGED <<common_vars_but_pc, positions, best_position, best_fitness, weights,
                   weight_deltas>>
    /\ UNCHANGED <<not_fss_vars, convergence>>

\* One pass of the individual movement (lines 123-146).
FSSFish ==
    /\ alg = "fss" /\ pc = "fish"
    /\ \E draw \in DirectionDraws(FSS_DIM) :
          LET i == bee
              direction == Unit(draw)
              step_ind == FSS_step(FSS_STEP_IND_INIT, FSS_STEP_IND_FINAL, iteration,
                                   max_iterations)
              test_position == [k \in 1..FSS_DIM |->
                  Clip(positions[i][k] + (direction[k] * step_ind) \div FP, 0, FP)]
              current_fitness == FSS_evaluate_fitness(positions[i], features)
              new_fitness == FSS_evaluate_fitness(test_position, features)
              moved == new_fitness > current_fitness
              fitness == IF moved THEN new_fitness ELSE current_fitness
              position == IF moved THEN test_position ELSE positions[i]
          IN /\ positions' = [positions EXCEPT ![i] = position]
             /\ fitness_values' = [fitness_values EXCEPT ![i] = fitness]
             /\ fitness_gains' = [fitness_gains EXCEPT ![i] = fitness - current_fitness]
             /\ IF fitness > best_fitness
                THEN best_fitness' = fitness /\ best_position' = position
                ELSE UNCHANGED <<best_fitness, best_position>>
             /\ IF i < population_size
                THEN bee' = i + 1 /\ pc' = pc
                ELSE bee' = i /\ pc' = "school"
    /\ UNCHANGED <<common_vars_but_pc, weights, weight_deltas>>
    /\ UNCHANGED <<not_fss_vars, convergence>>

\* Lines 149-218: weights, barycenter, collective movements; the iteration ends.
FSSSchool ==
    /\ alg = "fss" /\ pc = "school"
    /\ LET step_vol == FSS_step(FSS_STEP_VOL_INIT, FSS_STEP_VOL_FINAL, iteration,
                                max_iterations)
           c == FSS_collective(positions, fitness_values, weights, features, step_vol)
       IN /\ positions' = c.positions
          /\ weights' = c.weights
          /\ weight_deltas' = c.weight_deltas
    /\ convergence' = Append(convergence, best_fitness)
    /\ iteration' = iteration + 1
    /\ pc' = "loop"
    /\ UNCHANGED <<alg, logs, population_size, max_iterations, outcome, result,
                   features, log_mapping, fitness_values, best_position, best_fitness, bee,
                   fitness_gains>>
    /\ UNCHANGED not_fss_vars

\* Lines 220-285.  With no iteration run fitness_values was never bound:
\* np.argmax(fitness_values) raises NameError.
FSSSynthesize ==
    /\ alg = "fss" /\ pc = "synth"
    /\ IF best_position = None /\ fitness_values = Unbound
       THEN outcome' = "raised" /\ UNCHANGED <<result, best_position, best_fitness>>
       ELSE LET best_idx == ArgMax(fitness_values)
                position == IF best_position = None THEN positions[best_idx]
                            ELSE best_position
                fitness == IF best_position = None THEN fitness_values[best_idx]
                           ELSE best_fitness
                e == FSS_synthesize(position, fitness, logs, features, log_mapping)
            IN /\ best_position' = position
               /\ best_fitness' = fitness
               /\ result' = MakeResult("fss", e.overall_anomaly_score, e.priority_events,
                                       <<>>, <<>>, <<>>, fitness)
               /\ outcome' = "returned"
    /\ pc' = "done"
    /\ UNCHANGED <<alg, logs, population_size, max_iterations, iteration, features,
                   log_mapping, positions, fitness_values, bee, fss_vars>>
    /\ UNCHANGED <<not_fss_vars, convergence>>

FSSNext == FSSStart \/ FSSLoop \/ FSSFish \/ FSSSchool \/ FSSSynthesize

-----------------------------------------------------------------------------
(* ACOLogAnalyzer (aco_test.py).                                           *)

ACO_EVAPORATION == Tenth(1)
ACO_INITIAL_PHEROMONE == Tenth(1)
ACO_MAX_PATH == 10

\* self.risk_factors: the risk of a key, 0 for a key the table does not hold.
ACO_location_risk(location) ==
    CASE location = "North Korea" -> FP
      [] location \in {"Russia", "Iran"} -> Tenth(9)
      [] location \in {"China", "Syria"} -> Tenth(8)
      [] location \in {"Ukraine", "Belarus"} -> Tenth(7)
      [] location \in {"Iraq", "Pakistan"} -> Tenth(6)
      [] OTHER -> 0
ACO_protocol_risk(protocol) ==
    CASE protocol \in {"SMB", "Telnet"} -> Tenth(9)
      [] protocol = "RDP" -> Tenth(8)
      [] protocol = "SSH" -> Tenth(7)
      [] protocol = "FTP" -> Tenth(6)
      [] protocol = "HTTP" -> Tenth(5)
      [] protocol = "HTTPS" -> Tenth(4)
      [] OTHER -> 0
\* The table is keyed by str(port).
ACO_port_risk(port) ==
    CASE port \in {445, 23} -> Tenth(9)
      [] port \in {3389, 1433} -> Tenth(8)
      [] port \in {22, 3306, 5900, 135, 139} -> Tenth(7)
      [] port = 21 -> Tenth(6)
      [] port = 4444 -> FP
      [] OTHER -> 0
ACO_event_risk(event_type) ==
    CASE event_type = "lateral_movement" -> FP
      [] event_type \in {"data_exfiltration", "privilege_escalation"} -> Tenth(9)
      [] event_type = "file_download" -> Tenth(8)
      [] event_type = "port_scan" -> Tenth(7)
      [] event_type = "login" -> Tenth(6)
      [] OTHER -> 0
\* The first process of the table, in its order, that the name contains.
ACO_process_table ==
    << <<"ssh_brute", 9>>, <<"mal_downloader", 9>>, <<"worm.exe", 10>>, <<"mimikatz", 10>>,
       <<"pwdump", 9>>, <<"scan", 7>>, <<"crack", 8>>, <<"exploit", 8>> >>
ACO_process_risk(process) ==
    LET In(row) == Contains(Lower(process), row[1])
        hits == SelectSeq(ACO_process_table, In)
    IN IF hits = <<>> THEN 0 ELSE Tenth(hits[1][2])
ACO_suspicious_file_patterns ==
    {"exe", "bat", "ps1", "sh", "py", "pl", "js", "exploit", "tool", "malware", "hack",
     "crack", "trojan", "worm", "virus", "ransom", "backdoor"}

\* datetime.now(): naive, later than every timestamp of the pool, and later
\* at every call (the k-th entry calls it after the entries before it).
NowSecs == 10000000
Now(k) == [aware |-> FALSE, secs |-> NowSecs + k]

\* Lines 210-217: the datetime of the k-th entry.
ACO_datetime(log, k) ==
    LET dt == fromisoformat(GetTimestamp(log))
    IN IF dt.valid THEN [aware |-> dt.aware, secs |-> dt.secs] ELSE Now(k)

\* list.sort(key=datetime): stable, earliest first.
RECURSIVE SortByDatetime(_)
SortByDatetime(s) ==
    IF s = <<>> THEN <<>>
    ELSE LET rest == SortByDatetime(SubSeq(s, 1, Len(s) - 1))
             x == s[Len(s)]
             k == Cardinality({j \in 1..Len(rest) : rest[j].datetime.secs <= x.datetime.secs})
         IN SubSeq(rest, 1, k) \o <<x>> \o SubSeq(rest, k + 1, Len(rest))

\* _preprocess_logs.  Comparing an aware datetime with a naive one raises
\* TypeError, and a sort of a list holding both compares such a pair.
ACO_preprocess_logs(ls) ==
    LET processed == [k \in 1..Len(ls) |->
                         [original_index |-> k, log |-> ls[k],
                          datetime |-> ACO_datetime(ls[k], k)]]
        mixed == \E a, b \in 1..Len(ls) : processed[a].datetime.aware
                                          /\ ~processed[b].datetime.aware
    IN [raised |-> mixed,
        processed |-> IF mixed THEN <<>> ELSE SortByDatetime(processed)]

\* _calculate_node_attractiveness
ACO_calculate_node_attractiveness(processed) ==
    [k \in 1..Len(processed) |->
        LET log == processed[k].log
            filename == Lower(log.filename)
            score == ACO_location_risk(log.location) + ACO_protocol_risk(log.protocol)
                     + ACO_port_risk(log.destination_port) + ACO_event_risk(log.event_type)
                     + ACO_process_risk(log.process_name)
                     + (IF Lower(log.status) = "failed" THEN Tenth(5) ELSE 0)
                     + (IF filename # "" /\ ContainsAny(filename, ACO_suspicious_file_patterns)
                        THEN Tenth(7) ELSE 0)
        IN Min2(FP, score \div 5)]

\* _select_starting_node: the nodes the draw can return.
ACO_select_starting_node(attractiveness) ==
    IF SumSeq(attractiveness) = 0 THEN 1..Len(attractiveness)
    ELSE {k \in 1..Len(attractiveness) : attractiveness[k] > 0}

\* _calculate_proximity
ACO_calculate_proximity(p1, p2) ==
    LET log1 == p1.log
        log2 == p2.log
        time_diff == p2.datetime.secs - p1.datetime.secs
        key == <<log1.event_type, log2.event_type>>
        proximity ==
            (IF log1.source_ip # "" /\ log1.source_ip = log2.source_ip THEN Tenth(3) ELSE 0)
            + (IF log1.destination_ip # "" /\ log1.destination_ip = log2.destination_ip
               THEN Tenth(3) ELSE 0)
            + (IF log1.protocol # "" /\ log1.protocol = log2.protocol THEN Tenth(1) ELSE 0)
            + (IF log1.location # "" /\ log1.location = log2.location THEN Tenth(2) ELSE 0)
            + (IF 0 <= time_diff /\ time_diff <= 300 THEN Tenth(3)
               ELSE IF 300 < time_diff /\ time_diff <= 1800 THEN Tenth(1) ELSE 0)
            + (CASE key = <<"login", "file_download">> -> Tenth(4)
                 [] key = <<"file_download", "lateral_movement">> -> Tenth(5)
                 [] key = <<"login", "lateral_movement">> -> Tenth(3)
                 [] key = <<"port_scan", "login">> -> Tenth(3)
                 [] key = <<"port_scan", "lateral_movement">> -> Tenth(3)
                 [] OTHER -> 0)
            + (IF log1.destination_ip # "" /\ log1.destination_ip = log2.source_ip
               THEN Tenth(5) ELSE 0)
    IN Min2(FP, proximity)

\* The increasing enumeration of a finite set of integers.
RECURSIVE SetToSeq(_)
SetToSeq(S) == IF S = {} THEN <<>>
               ELSE LET m == CHOOSE x \in S : \A y \in S : x <= y
                    IN <<m>> \o SetToSeq(S \ {m})

\* _select_next_node choosing among all nodes, visited or not.
ACO_select_any_node(current, visited, pher, attractiveness) ==
    LET nodes == SetToSeq(1..Len(attractiveness))
        weights_ == [n \in 1..Len(nodes) |->
                        (((pher[current][nodes[n]] * attractiveness[nodes[n]]) \div FP)
                         * attractiveness[nodes[n]]) \div FP]
    IN IF SumSeq(weights_) > 0
       THEN {nodes[n] : n \in {m \in 1..Len(nodes) : weights_[m] > 0}}
       ELSE {nodes[n] : n \in 1..Len(nodes)}

\* _select_next_node: the nodes it can return ({} stands for None).
\* (tau ** alpha) * (eta ** beta) with alpha = 1 and beta = 2.
ACO_select_next_node(current, visited, pher, attractiveness) ==
    LET unvisited == SetToSeq((1..Len(attractiveness)) \ visited)
        weights_ == [n \in 1..Len(unvisited) |->
                        (((pher[current][unvisited[n]] * attractiveness[unvisited[n]]) \div FP)
                         * attractiveness[unvisited[n]]) \div FP]
        probs == IF SumSeq(weights_) > 0
                         THEN [n \in 1..Len(unvisited) |->
                                  (weights_[n] * FP) \div SumSeq(weights_)]
                         ELSE [n \in 1..Len(unvisited) |-> FP \div Len(unvisited)]
        exploitation == unvisited[ArgMax(probs)]
        exploration == IF SumSeq(weights_) > 0
                       THEN {unvisited[n] : n \in {m \in 1..Len(unvisited) : weights_[m] > 0}}
                       ELSE {unvisited[n] : n \in 1..Len(unvisited)}
    IN IF unvisited = <<>> THEN {} ELSE {exploitation} \cup exploration

\* Lines 135-155: every way an ant can finish a path, with the score recorded.
RECURSIVE ACO_walks(_, _, _, _, _)
ACO_walks(path, path_score, pher, attractiveness, processed) ==
    LET current_node == path[Len(path)]
        visited == {path[n] : n \in 1..Len(path)}
        candidates == ACO_select_next_node(current_node, visited, pher, attractiveness)
    IN IF Len(path) < Min2(Len(processed), ACO_MAX_PATH) /\ candidates # {}
       THEN UNION { ACO_walks(Append(path, next_node),
                              path_score
                              + (attractiveness[next_node]
                                 * ACO_calculate_proximity(processed[current_node],
                                                           processed[next_node])) \div FP,
                              pher, attractiveness, processed) : next_node \in candidates }
       ELSE {[path |-> path, score |-> path_score \div Len(path)]}

\* Lines 164-171: evaporation, then the deposits of every ant on its edges.
ACO_evaporate(pher) ==
    [a \in 1..Len(pher) |-> [b \in 1..Len(pher) |-> (pher[a][b] * (FP - ACO_EVAPORATION)) \div FP]]

\* The number of steps of a path from a to b, in that direction only.
ForwardCrossings(path, a, b) ==
    Cardinality({n \in 1..(Len(path) - 1) : path[n] = a /\ path[n + 1] = b})

\* The number of steps of a path over the edge a-b, in either direction.
Crossings(path, a, b) ==
    Cardinality({n \in 1..(Len(path) - 1) :
                    \/ path[n] = a /\ path[n + 1] = b
                    \/ path[n] = b /\ path[n + 1] = a})

ACO_deposit(pher, paths, scores) ==
    [a \in 1..Len(pher) |-> [b \in 1..Len(pher) |->
        pher[a][b] + SumSeq([ant \in 1..Len(paths) |->
                                scores[ant] * Crossings(paths[ant], a, b)])]]

\* _extract_clusters
RECURSIVE ACO_clusters_from(_, _, _, _)
ACO_clusters_from(i, visited, pher, processed) ==
    LET n == Len(processed)
        joined == {j \in 1..n : j # i /\ j \notin visited /\ pher[i][j] > Tenth(5)}
        cluster == <<i>> \o SetToSeq(joined)
        Risk(idx) ==
            LET log == processed[idx].log
            IN (IF Lower(log.status) = "failed" THEN Tenth(3) ELSE 0)
               + ACO_location_risk(log.location) + ACO_event_risk(log.event_type)
        risk_score == Min2(FP, SumSeq([m \in 1..Len(cluster) |-> Risk(cluster[m])])
                               \div Len(cluster))
    IN IF i > n THEN <<>>
       ELSE IF i \in visited THEN ACO_clusters_from(i + 1, visited, pher, processed)
       ELSE (IF Len(cluster) > 1
             THEN <<[log_indices |-> cluster, score |-> risk_score,
                     source_ip |-> processed[i].log.source_ip, size |-> Len(cluster)]>>
             ELSE <<>>)
            \o ACO_clusters_from(i + 1, visited \cup {i} \cup joined, pher, processed)

\* _extract_clusters without its final sort: the clusters in the order found.
ACO_clusters_as_found(pher, processed) ==
    ACO_clusters_from(1, {}, pher, processed)

ACO_extract_clusters(pher, processed) ==
    SortByScoreDesc(ACO_clusters_from(1, {}, pher, processed))

\* _identify_attack_patterns
ACO_identify_attack_patterns(clusters, processed) ==
    LET Name(cluster) ==
            LET members == {processed[cluster.log_indices[m]].log :
                               m \in 1..Len(cluster.log_indices)}
                has_failed_login == \E log \in members :
                                        log.event_type = "login" /\ log.status = "failed"
                has_download == \E log \in members : log.event_type = "file_download"
                has_lateral == \E log \in members : log.event_type = "lateral_movement"
                suspicious_process == \E log \in members :
                    log.process_name # "" /\ ACO_process_risk(log.process_name) > 0
            IN IF has_failed_login /\ has_download /\ has_lateral
               THEN <<"Complete Attack Chain", Tenth(9)>>
               ELSE IF has_download /\ has_lateral THEN <<"Malware Spread", Tenth(7)>>
               ELSE IF has_failed_login /\ suspicious_process
               THEN <<"Brute Force Attempt", Tenth(6)>>
               ELSE IF has_lateral THEN <<"Lateral Movement", Tenth(7)>>
               ELSE IF has_download /\ suspicious_process
               THEN <<"Malware Download", Tenth(6)>>
               ELSE <<"", 0>>
        Named(n) == Name(clusters[n])[1] # ""
        named == SelectSeq([n \in 1..Len(clusters) |-> n], Named)
    IN SortByScoreDesc([m \in 1..Len(named) |->
           [pattern_type |-> Name(clusters[named[m]])[1],
            severity |-> Name(clusters[named[m]])[2],
            score |-> Name(clusters[named[m]])[2],
            cluster_id |-> named[m],
            log_indices |-> clusters[named[m]].log_indices]])

\* _extract_suspicious_logs: np.argsort(attractiveness)[::-1][:5], then the
\* entries above 0.3.  The index reported is the position in the sorted
\* logs; the items carry no list of reasons.
ACO_extract_suspicious_logs(attractiveness, processed) ==
    LET n == Len(processed)
        indices == Take(SortByScoreDesc([m \in 1..n |->
                            [idx |-> n + 1 - m, score |-> attractiveness[n + 1 - m]]]), 5)
        Suspicious(x) == x.score > Tenth(3)
        kept == SelectSeq(indices, Suspicious)
    IN [m \in 1..Len(kept) |->
           [log_index |-> kept[m].idx, score |-> kept[m].score,
            entry |-> processed[kept[m].idx].log, reasons |-> <<>>]]

\* _calculate_threat_score
ACO_calculate_threat_score(clusters, attack_patterns, suspicious_logs) ==
    LET MaxOf(items) == MaxSeq([m \in 1..Len(items) |-> items[m].score])
        score == (IF clusters # <<>> THEN (MaxOf(clusters) * 4) \div 10 ELSE 0)
                 + (IF attack_patterns # <<>> THEN (MaxOf(attack_patterns) * 4) \div 10 ELSE 0)
                 + (IF suspicious_logs # <<>> THEN (MaxOf(suspicious_logs) * 2) \div 10 ELSE 0)
    IN Min2(FP, score)

\* analyze, lines 98-119.
ACOStart ==
    /\ alg = "aco" /\ pc = "start"
    /\ IF logs = <<>>
       THEN /\ result' = EmptyResult("aco")
            /\ outcome' = "returned"
            /\ pc' = "done"
            /\ UNCHANGED <<processed_logs, node_attractiveness, pheromones, convergence>>
       ELSE LET pre == ACO_preprocess_logs(logs)
            IN IF pre.raised
               THEN /\ outcome' = "raised"
                    /\ pc' = "done"
                    /\ UNCHANGED <<result, processed_logs, node_attractiveness, pheromones,
                                   convergence>>
               ELSE /\ processed_logs' = pre.processed
                    /\ node_attractiveness' = ACO_calculate_node_attractiveness(pre.processed)
                    /\ pheromones' = [a \in 1..Len(logs) |->
                                         [b \in 1..Len(logs) |-> ACO_INITIAL_PHEROMONE]]
                    /\ UNCHANGED convergence
                    /\ pc' = "loop"
                    /\ UNCHANGED <<result, outcome>>
    /\ UNCHANGED <<alg, logs, population_size, max_iterations, iteration, features,
                   log_mapping, swarm_vars, bee, all_paths, all_scores, best_path>>
    /\ UNCHANGED not_aco_vars

\* for iteration in range(self.iterations), and lines 123-124
ACOLoop ==
    /\ alg = "aco" /\ pc = "loop"
    /\ IF iteration < max_iterations
       THEN /\ pc' = "ant"
            /\ bee' = 1
            /\ all_paths' = <<>>
            /\ all_scores' = <<>>
       ELSE /\ pc' = "synth"
            /\ UNCHANGED <<bee, all_paths, all_scores>>
    /\ UNCHANGED <<common_vars_but_pc, swarm_vars, processed_logs, node_attractiveness,
                   pheromones, best_path>>
    /\ UNCHANGED <<not_aco_vars, convergence>>

\* One pass of "for ant in range(self.num_ants)" (lines 127-155).
ACOAnt ==
    /\ alg = "aco" /\ pc = "ant"
    /\ \E start \in ACO_select_starting_node(node_attractiveness) :
          \E walk \in ACO_walks(<<start>>, node_attractiveness[start], pheromones,
                                node_attractiveness, processed_logs) :
             /\ all_paths' = Append(all_paths, walk.path)
             /\ all_scores' = Append(all_scores, walk.score)
    /\ IF bee < population_size
       THEN bee' = bee + 1 /\ pc' = pc
       ELSE bee' = bee /\ pc' = "update"
    /\ UNCHANGED <<common_vars_but_pc, swarm_vars, processed_logs, node_attractiveness,
                   pheromones, best_path>>
    /\ UNCHANGED <<not_aco_vars, convergence>>

\* Lines 157-171: the best path, evaporation, deposit; the iteration ends.
ACOUpdate ==
    /\ alg = "aco" /\ pc = "update"
    /\ LET best_ant == ArgMax(all_scores)
       IN IF all_scores[best_ant] > best_fitness
          THEN best_path' = all_paths[best_ant] /\ best_fitness' = all_scores[best_ant]
          ELSE UNCHANGED <<best_path, best_fitness>>
    /\ pheromones' = ACO_deposit(ACO_evaporate(pheromones), all_paths, all_scores)
    /\ convergence' = Append(convergence, best_fitness')
    /\ iteration' = iteration + 1
    /\ pc' = "loop"
    /\ UNCHANGED <<alg, logs, population_size, max_iterations, outcome, result, features,
                   log_mapping, positions, fitness_values, best_position, bee,
                   processed_logs, node_attractiveness, all_paths, all_scores>>
    /\ UNCHANGED not_aco_vars

\* Lines 173-185.
ACOSynthesize ==
    /\ alg = "aco" /\ pc = "synth"
    /\ LET clusters == ACO_extract_clusters(pheromones, processed_logs)
           attack_patterns == ACO_identify_attack_patterns(clusters, processed_logs)
           suspicious_logs == ACO_extract_suspicious_logs(node_attractiveness,
                                                          processed_logs)
           threat_score == ACO_calculate_threat_score(clusters, attack_patterns,
                                                      suspicious_logs)
       IN result' = MakeResult("aco", threat_score, suspicious_logs, attack_patterns,
                               clusters, <<>>, best_fitness)
    /\ outcome' = "returned"
    /\ pc' = "done"
    /\ UNCHANGED <<alg, logs, population_size, max_iterations, iteration, features,
                   log_mapping, swarm_vars, bee, aco_vars>>
    /\ UNCHANGED <<not_aco_vars, convergence>>

ACONext == ACOStart \/ ACOLoop \/ ACOAnt \/ ACOUpdate \/ ACOSynthesize

-----------------------------------------------------------------------------
(* AegiswarmAnalyzer (main.py): the orchestrator and its six scorers.      *)
(* Its argument is log_data['logs'], or NoLogs when log_data is empty or   *)
(* holds no 'logs' key.                                                     *)

MAIN_suspicious_locations == {"North Korea", "Russia", "Iran", "China", "Syria"}
MAIN_suspicious_file_patterns == {"exploit", "toolkit", "malware", "hack", "crack",
                                  "trojan", "worm", "virus", "ransom", "backdoor"}
MAIN_suspicious_process_names == {"ssh_brute", "mal_downloader", "worm.exe", "exploit",
                                  "scan", "crack", "mimikatz", "pwdump"}
MAIN_suspicious_protocols == {<<"SMB", 445>>, <<"Telnet", 23>>, <<"RDP", 3389>>, <<"SSH", 22>>}

\* sum(1 for log in logs if test(log))
CountWhere(ls, Test(_)) == Cardinality({k \in 1..Len(ls) : Test(ls[k])})

\* ant_colony_optimization
MAIN_ant_colony_optimization(ls) ==
    LET Located(log) == log.location \in MAIN_suspicious_locations
        Failed(log) == Lower(log.status) = "failed"
        Process(log) == ContainsAny(Lower(log.process_name), MAIN_suspicious_process_names)
        Share(n, weight) == (weight * ((n * FP) \div Len(ls))) \div FP
    IN Min2(Share(CountWhere(ls, Located), Tenth(3)) + Share(CountWhere(ls, Failed), Tenth(3))
            + Share(CountWhere(ls, Process), Tenth(4)), FP)

\* particle_swarm_optimization
MAIN_particle_swarm_optimization(ls) ==
    LET Lateral(log) == log.event_type = "lateral_movement"
        Large(log) == log.bytes_received > 1000000
        Download(log) == /\ log.event_type = "file_download"
                         /\ ContainsAny(Lower(log.filename), MAIN_suspicious_file_patterns)
    IN Min2((IF CountWhere(ls, Lateral) > 0 THEN Tenth(5) ELSE 0)
            + (IF CountWhere(ls, Large) > 0 THEN Tenth(4) ELSE 0)
            + (IF CountWhere(ls, Download) > 0 THEN Tenth(3) ELSE 0), FP)

\* artificial_bee_colony
MAIN_artificial_bee_colony(ls) ==
    LET FailedFrom(ip) == {k \in 1..Len(ls) : /\ ls[k].event_type = "login"
                                              /\ ls[k].source_ip = ip
                                              /\ ls[k].status = "failed"}
        brute_force_detected ==
            \E k \in 1..Len(ls) : /\ ls[k].event_type = "login"
                                  /\ Cardinality(FailedFrom(ls[k].source_ip)) > 2
        Process(log) == Lower(log.process_name) \in MAIN_suspicious_process_names
        Unusual(log) == <<log.protocol, log.destination_port>> \in MAIN_suspicious_protocols
    IN Min2((IF brute_force_detected THEN Tenth(6) ELSE 0)
            + (IF CountWhere(ls, Process) > 0 THEN Tenth(7) ELSE 0)
            + (IF CountWhere(ls, Unusual) > 0 THEN Tenth(4) ELSE 0), FP)

\* firefly_algorithm
MAIN_firefly_algorithm(ls) ==
    LET Has(event) == \E k \in 1..Len(ls) : ls[k].event_type = event
        has_login == Has("login")
        has_download == Has("file_download")
        has_lateral == Has("lateral_movement")
        chain == IF has_login /\ has_download /\ has_lateral THEN Tenth(8)
                 ELSE IF has_login /\ has_download THEN Tenth(5)
                 ELSE IF has_download /\ has_lateral THEN Tenth(6)
                 ELSE IF has_login /\ has_lateral THEN Tenth(4)
                 ELSE 0
        ips == {ls[k].source_ip : k \in 1..Len(ls)} \ {""}
        Events(ip) == {ls[k].event_type : k \in {j \in 1..Len(ls) : ls[j].source_ip = ip}}
        RECURSIVE Shared(_)
        Shared(S) == IF S = {} THEN 0
                     ELSE LET ip == CHOOSE x \in S : TRUE
                              n == Cardinality(Events(ip))
                          IN (IF n > 1 THEN Tenth(2) * n ELSE 0) + Shared(S \ {ip})
    IN Min2(chain + Shared(ips), FP)

\* fish_school_search
MAIN_fish_school_search(ls) ==
    LET EventScore(log) ==
            (IF log.location \in MAIN_suspicious_locations THEN Tenth(3) ELSE 0)
            + (IF ContainsAny(Lower(log.process_name), MAIN_suspicious_process_names)
               THEN Tenth(4) ELSE 0)
            + (IF /\ log.event_type = "file_download"
                  /\ ContainsAny(Lower(log.filename), MAIN_suspicious_file_patterns)
               THEN Tenth(5) ELSE 0)
            + (IF log.event_type = "lateral_movement" THEN Tenth(6) ELSE 0)
        Critical(log) == EventScore(log) > Tenth(5)
        critical_events == CountWhere(ls, Critical)
    IN IF critical_events > 0
       THEN Min2(FP, (critical_events * FP) \div Len(ls) + Tenth(3))
       ELSE 0

\* ipaddress.ip_address(ip).is_private, on the addresses of the pool;
\* False for a string that is no address.
MAIN_is_private_ip(ip) ==
    ip \in {"10.0.0.5", "10.0.0.7", "10.0.0.9", "192.168.1.2", "192.168.1.3"}

\* list.sort() of integers
RECURSIVE SortAsc(_)
SortAsc(s) ==
    IF s = <<>> THEN <<>>
    ELSE LET rest == SortAsc(SubSeq(s, 1, Len(s) - 1))
             x == s[Len(s)]
             k == Cardinality({j \in 1..Len(rest) : rest[j] <= x})
         IN SubSeq(rest, 1, k) \o <<x>> \o SubSeq(rest, k + 1, Len(rest))

\* grey_wolf_optimizer: [raised, score].  With three logs or more every
\* timestamp that is present is parsed, outside any try (line 267): one that
\* does not parse raises ValueError; sorting aware with naive datetimes
\* raises TypeError.
MAIN_grey_wolf_optimizer(ls) ==
    LET Present(log) == log.timestamp # Absent
        stamped == SelectSeq(ls, Present)
        timestamps == [k \in 1..Len(stamped) |-> fromisoformat(stamped[k].timestamp)]
        value_error == \E k \in 1..Len(stamped) : ~timestamps[k].valid
        type_error == \E a, b \in 1..Len(stamped) :
                          timestamps[a].aware /\ ~timestamps[b].aware
        sorted == SortAsc([k \in 1..Len(stamped) |-> timestamps[k].secs])
        paused == \E k \in 1..(Len(sorted) - 1) :
                      120 <= sorted[k + 1] - sorted[k] /\ sorted[k + 1] - sorted[k] <= 600
        Internal(log) == log.destination_ip # "" /\ MAIN_is_private_ip(log.destination_ip)
        internal_ips == CountWhere(ls, Internal)
        outbound_data == SumSeq([k \in 1..Len(ls) |-> ls[k].bytes_sent])
        score == (IF Len(ls) >= 3 /\ paused THEN Tenth(3) ELSE 0)
                 + (IF internal_ips > 0
                    THEN (Tenth(2) * ((internal_ips * FP) \div Len(ls))) \div FP ELSE 0)
                 + (IF outbound_data > 10000 THEN Tenth(2) ELSE 0)
    IN IF Len(ls) >= 3 /\ (value_error \/ type_error)
       THEN [raised |-> TRUE, score |-> 0]
       ELSE [raised |-> FALSE, score |-> Min2(score, FP)]

\* Lines 52-66: the weighted average and its bucket.
MAIN_threat_score(summary) ==
    (summary[1] * 15) \div 100 + (summary[2] * 15) \div 100 + (summary[3] * 2) \div 10
    + (summary[4] * 2) \div 10 + (summary[5] * 2) \div 10 + summary[6] \div 10

\* Lines 61-66 without the middle bucket.
MAIN_status_without_suspicious(threat_score) ==
    IF threat_score < Tenth(3) THEN "safe" ELSE "threat"

MAIN_overall_status(threat_score) ==
    IF threat_score < Tenth(3) THEN "safe"
    ELSE IF threat_score < Tenth(7) THEN "suspicious"
    ELSE "threat"

\* analyze_logs, lines 30-42: nothing to analyse.
MainStart ==
    /\ alg = "main" /\ pc = "start"
    /\ IF logs = NoLogs \/ logs = <<>>
       THEN /\ result' = [overall_status |-> "safe", threat_score |-> 0,
                          detection_summary |-> <<0, 0, 0, 0, 0, 0>>]
            /\ outcome' = "returned"
            /\ pc' = "done"
       ELSE /\ pc' = "scorers"
            /\ UNCHANGED <<result, outcome>>
    /\ UNCHANGED <<alg, logs, population_size, max_iterations, iteration, features,
                   log_mapping, detection_summary>>
    /\ UNCHANGED not_main_vars

\* Lines 45-49: the five scorers that read no timestamp.
MainScorers ==
    /\ alg = "main" /\ pc = "scorers"
    /\ detection_summary' = << MAIN_ant_colony_optimization(logs),
                               MAIN_particle_swarm_optimization(logs),
                               MAIN_artificial_bee_colony(logs),
                               MAIN_firefly_algorithm(logs),
                               MAIN_fish_school_search(logs) >>
    /\ pc' = "gwo"
    /\ UNCHANGED <<common_vars_but_pc>>
    /\ UNCHANGED not_main_vars

\* Line 50: an exception of grey_wolf_optimizer leaves analyze_logs.
MainGreyWolf ==
    /\ alg = "main" /\ pc = "gwo"
    /\ LET gwo == MAIN_grey_wolf_optimizer(logs)
       IN IF gwo.raised
          THEN /\ outcome' = "raised"
               /\ pc' = "done"
               /\ UNCHANGED detection_summary
          ELSE /\ detection_summary' = Append(detection_summary, gwo.score)
               /\ pc' = "verdict"
               /\ UNCHANGED outcome
    /\ UNCHANGED <<alg, logs, population_size, max_iterations, iteration, result,
                   features, log_mapping>>
    /\ UNCHANGED not_main_vars

\* Lines 52-79.
MainVerdict ==
    /\ alg = "main" /\ pc = "verdict"
    /\ LET threat_score == MAIN_threat_score(detection_summary)
       IN result' = [overall_status |-> MAIN_overall_status(threat_score),
                     threat_score |-> threat_score,
                     detection_summary |-> detection_summary]
    /\ outcome' = "returned"
    /\ pc' = "done"
    /\ UNCHANGED <<alg, logs, population_size, max_iterations, iteration, features,
                   log_mapping, detection_summary>>
    /\ UNCHANGED not_main_vars

MainNext == MainStart \/ MainScorers \/ MainGreyWolf \/ MainVerdict

-----------------------------------------------------------------------------
vars == <<common_vars, swarm_vars, abc_vars, pso_vars, convergence, fss_vars, aco_vars,
          detection_summary>>

\* The state analyze is called in.
InitWith(algorithms, inputs, sizes, budgets) ==
    /\ alg \in algorithms
    /\ logs \in inputs
    /\ population_size \in sizes
    /\ max_iterations \in budgets
    /\ pc = "start"
    /\ iteration = 0
    /\ outcome = "running"
    /\ result = None
    /\ features = <<>>
    /\ log_mapping = <<>>
    /\ positions = <<>>
    /\ fitness_values = Unbound
    /\ best_position = None
    /\ best_fitness = 0
    /\ trials = <<>>
    /\ probabilities = <<>>
    /\ bee = 0
    /\ count = 0
    /\ new_solution = None
    /\ velocities = <<>>
    /\ personal_best_positions = <<>>
    /\ personal_best_scores = <<>>
    /\ convergence = <<>>
    /\ weights = <<>>
    /\ weight_deltas = <<>>
    /\ fitness_gains = <<>>
    /\ processed_logs = <<>>
    /\ node_attractiveness = <<>>
    /\ pheromones = <<>>
    /\ all_paths = <<>>
    /\ all_scores = <<>>
    /\ best_path = <<>>
    /\ detection_summary = <<>>

InitABC == InitWith({"abc"}, {<<>>, <<HighRiskLog>>, <<LateralLog, BenignLog>>},
                    1..MaxColony, 0..MaxIter)
SpecABC == InitABC /\ [][ABCNext]_vars

\* A pass of the onlooker loop, and a pass whose draw of random.random() fell
\* below probabilities[i] (abc_test.py lines 109-111), by what they do to i
\* and count.
OnlookerPasses ==
    /\ alg = "abc" /\ pc = "onlooker"
    /\ bee' = (bee % population_size) + 1
OnlookerCounts ==
    /\ alg = "abc" /\ pc = "onlooker"
    /\ \E r \in RandomValues : r < probabilities[bee]
    /\ count' = count + 1

\* The bee colony with its scheduling: the onlooker loop goes on while it is
\* in the phase, and a draw of random.random() that is made again and again
\* against a positive probability falls below it at some point (the counted
\* pass is taken if it is possible infinitely often).
SpecABCFair ==
    /\ InitABC
    /\ [][ABCNext]_vars
    /\ WF_bee(OnlookerPasses)
    /\ SF_count(OnlookerCounts)

\* The employed-bee loop moves on when _produce_new_solution returns, which it
\* does once random.randrange draws an index other than the bee's own (lines
\* 247-249): possible only when such an index exists.
EmployedPasses ==
    /\ alg = "abc" /\ pc = "employed"
    /\ (1..population_size) \ {bee} # {}
    /\ IF bee < population_size
       THEN bee' = bee + 1 /\ pc' = pc
       ELSE bee' = 1 /\ pc' = "onlooker"

\* ABC with an employed-bee loop whose partner draw is fair: an index that can
\* be drawn is drawn in the end.
SpecABCEmployedFair ==
    /\ InitABC /\ [][ABCNext]_vars
    /\ WF_<<bee, pc>>(EmployedPasses)

InitPSO == InitWith({"pso"}, {<<>>, <<BenignLog>>, <<HighRiskLog>>, <<BenignLog, LateralLog>>,
                              <<DownloadLog, FailedLoginLog>>},
                    1..MaxColony, 0..MaxIter)
SpecPSO == InitPSO /\ [][PSONext]_vars

\* Three failed logins from one address, alone and beside a louder event.
BruteForceLogs == <<FailedLoginLog, FailedLoginLog, FailedLoginLog>>
LoudBruteForceLogs == <<LateralLog, FailedLoginLog, FailedLoginLog, FailedLoginLog>>

InitFirefly == InitWith({"firefly"}, {<<>>, <<BenignLog>>, <<HighRiskLog>>,
                                      <<BenignLog, LateralLog>>,
                                      <<DownloadLog, FailedLoginLog>>,
                                      BruteForceLogs, LoudBruteForceLogs},
                        1..MaxColony, 0..MaxIter)
SpecFirefly == InitFirefly /\ [][FireflyNext]_vars

InitFSS == InitWith({"fss"}, {<<>>, <<BenignLog>>, <<HighRiskLog>>, <<LateralLog>>,
                              <<BenignLog, LateralLog>>,
                              <<DownloadLog, HighRiskLog, FailedLoginLog>>},
                    1..MaxColony, 0..MaxIter)
SpecFSS == InitFSS /\ [][FSSNext]_vars

InitACO == InitWith({"aco"}, {<<>>, <<HighRiskLog>>, <<BenignLog>>,
                              <<FailedLoginLog, LateralLog>>,
                              <<LateralLog, HighRiskLog>>,
                              <<DownloadLog, BenignLog>>,
                              <<FailedLoginLog, FailedLoginLog, LateralLog>>},
                    1..MaxColony, 0..MaxIter)
SpecACO == InitACO /\ [][ACONext]_vars

\* Two unremarkable entries followed by two high-risk ones: enough entries for
\* two clusters.
TwoPairsLogs == <<BenignLog, BenignLog, HighRiskLog, HighRiskLog>>

InitACOPairs == InitWith({"aco"}, {TwoPairsLogs, <<HighRiskLog, BenignLog>>,
                                   <<LateralLog, FailedLoginLog, FailedLoginLog>>},
                         1..MaxColony, 0..MaxIter)
SpecACOPairs == InitACOPairs /\ [][ACONext]_vars

\* log_data without a 'logs' key, with an empty list, and with lists whose
\* timestamps are aware, absent, naive and unparsable.
InitMain == InitWith({"main"}, {NoLogs, <<>>, <<HighRiskLog>>, <<BenignLog, LateralLog>>,
                               <<LateralLog, FailedLoginLog, FailedLoginLog>>,
                               <<LateralLog, HighRiskLog, FailedLoginLog>>,
                               <<LateralLog, BenignLog, FailedLoginLog>>,
                               <<LateralLog, DownloadLog, FailedLoginLog>>,
                               LoudBruteForceLogs},
                     {1}, {0})
SpecMain == InitMain /\ [][MainNext]_vars

\* Every analyser and the orchestrator.
Init == InitABC \/ InitPSO \/ InitFirefly \/ InitFSS \/ InitACO \/ InitMain
Next == ABCNext \/ PSONext \/ FireflyNext \/ FSSNext \/ ACONext \/ MainNext
Spec == Init /\ [][Next]_vars

\* Long runs of the five analysers with the smallest population that lets
\* them iterate (two food sources, one particle, firefly, fish or ant): the
\* iteration budget exceeds the ten-iteration window of the convergence tests.
LongIter == 13
InitLong == \/ InitWith({"abc"}, {<<LateralLog>>}, {1, 2}, {LongIter})
            \/ InitWith({"pso", "firefly", "fss", "aco"}, {<<LateralLog>>}, {1}, {LongIter})
NextLong == ABCNext \/ PSONext \/ FireflyNext \/ FSSNext \/ ACONext
SpecLong == InitLong /\ [][NextLong]_vars

-----------------------------------------------------------------------------
(* The properties.                                                         *)

Analysers == {"abc", "pso", "firefly", "fss", "aco"}
Returned == pc = "done" /\ outcome = "returned"

\* The timestamp of the entry is missing or does not parse.
BadTimestamp(log) == log.timestamp = Absent \/ ~fromisoformat(GetTimestamp(log)).valid

\* Every timestamp parses, and all carry a timezone or none does.
SoundTimestamps(ls) ==
    /\ \A i \in 1..Len(ls) : ~BadTimestamp(ls[i])
    /\ \A i \in 1..Len(ls), j \in 1..Len(ls) :
          fromisoformat(GetTimestamp(ls[i])).aware = fromisoformat(GetTimestamp(ls[j])).aware

\* C1: for every strategy, analyze on a non-empty log list with an iteration
\* budget of 0 completes without raising and returns a result.  Inputs with
\* sound timestamps only, so that C10's failures are not counted.
C1_ZeroBudgetReturns ==
    (/\ alg \in Analysers /\ logs # <<>> /\ max_iterations = 0 /\ pc = "done"
     /\ SoundTimestamps(logs))
        => outcome = "returned"

\* C2: for the single high-risk entry (North Korea, port 445, mimikatz,
\* failed) every strategy flags that entry with a non-empty list of reasons.
\* Runs with a positive budget only, so that C1's failures are not counted.
C2_HighRiskEntryFlagged ==
    (alg \in Analysers /\ max_iterations > 0 /\ pc = "done" /\ logs = <<HighRiskLog>>)
        => /\ outcome = "returned"
           /\ \E n \in 1..Len(result.flagged) :
                 /\ result.flagged[n].log_index = 1
                 /\ result.flagged[n].reasons # <<>>

\* C3: for every strategy an empty log list gives an aggregate score of 0 and
\* no flagged entry, without any iteration and without a population; the
\* orchestrator answers "safe" with threat score 0 for a missing or empty list.
C3_EmptyInput ==
    /\ (alg \in Analysers /\ pc # "start" /\ logs = <<>>)
          => /\ Returned
             /\ result.score = 0
             /\ result.flagged = <<>>
             /\ iteration = 0
             /\ positions = <<>>
    /\ (alg = "main" /\ pc # "start" /\ (logs = NoLogs \/ logs = <<>>))
          => /\ Returned
             /\ result.overall_status = "safe"
             /\ result.threat_score = 0

C3_Witness == alg \in Analysers /\ logs = <<>> /\ Returned /\ result.flagged = <<>>

\* C4: in the ant-colony run the pheromone matrix is symmetric and has no
\* negative entry, initially and after every evaporation-then-deposit step.
C4_PheromoneSymmetric ==
    alg = "aco" =>
        \A a \in 1..Len(pheromones), b \in 1..Len(pheromones) :
            /\ pheromones[a][b] = pheromones[b][a]
            /\ pheromones[a][b] >= 0

\* An iteration has ended and an ant has crossed an edge between two entries.
C4_Witness ==
    /\ alg = "aco" /\ iteration >= 1 /\ pc = "loop"
    /\ \E a \in 1..Len(pheromones), b \in 1..Len(pheromones) :
          a # b /\ pheromones[a][b] > ACO_INITIAL_PHEROMONE

\* At least 3 failed logins of `ls` share one non-empty source IP.
ThreeFailedLogins(ls) ==
    \E i \in 1..Len(ls) :
        /\ ls[i].source_ip # ""
        /\ Cardinality({j \in 1..Len(ls) : /\ ls[j].event_type = "login"
                                           /\ Lower(ls[j].status) = "failed"
                                           /\ ls[j].source_ip = ls[i].source_ip}) >= 3

\* C5: whenever the input holds at least 3 failed logins with the same
\* non-empty source IP, the result's patterns hold a "brute_force" pattern of
\* severity 0.8.  Runs that flag an entry, which every run with weights above
\* zero does.
C5_BruteForceReported ==
    (/\ alg = "firefly" /\ Returned /\ logs # <<>> /\ ThreeFailedLogins(logs)
     /\ result.flagged # <<>>)
        => \E n \in 1..Len(result.patterns) :
              /\ result.patterns[n].pattern_type = "brute_force"
              /\ result.patterns[n].severity = Tenth(8)

\* C6: every index reported for a flagged entry is the position of that entry
\* in the input list, and the entry reported with it is that entry.
C6_IndicesAreInputPositions ==
    (alg \in Analysers /\ Returned)
        => \A n \in 1..Len(result.flagged) :
              /\ result.flagged[n].log_index \in 1..Len(logs)
              /\ logs[result.flagged[n].log_index] = result.flagged[n].entry

InUnitBox(v) == \A k \in 1..Len(v) : v[k] >= 0 /\ v[k] <= FP

\* C7: at every point of a run every component of every candidate weight
\* vector is in [0,1]; a bee-colony candidate also sums to 1, within the
\* rounding of its components.
C7_CandidatesInUnitBox ==
    alg \in {"abc", "pso", "firefly", "fss"} =>
        \A n \in 1..Len(positions) :
            /\ InUnitBox(positions[n])
            /\ alg = "abc" => Abs(SumSeq(positions[n]) - FP) <= ABC_DIM

\* C8: no normalization yields a non-finite value: no weight vector, selection
\* probability or aggregate score of a run is NaN.
C8_NormalizationsFinite ==
    /\ alg = "abc" =>
          /\ \A n \in 1..Len(positions) : ~IsNaNVec(positions[n])
          /\ \A n \in 1..Len(probabilities) : probabilities[n] # NaN
    /\ (alg \in Analysers /\ Returned) => result.score # NaN

\* The best fitness after k iterations.
BestAfter(k) == IF alg \in {"pso", "firefly"} THEN convergence[k + 1] ELSE convergence[k]

\* The last entry of the trace is within epsilon of the entry nine before it.
TraceFlat == Abs(convergence[Len(convergence)] - convergence[Len(convergence) - 9]) < Epsilon

\* C9 (as amended): in all five strategies the main loop runs for at most
\* max_iterations iterations.  The bee colony, the ant colony and the fish
\* school always run the whole budget.  The particle swarm and the fireflies
\* stop early exactly when at least 12 iterations have run and the last entry
\* of the trace is within epsilon of the entry nine before it.
C9_BudgetAndEarlyStop ==
    alg \in Analysers =>
        /\ iteration <= max_iterations
        /\ (alg \in {"abc", "aco", "fss"} /\ pc = "synth") => iteration = max_iterations
        /\ (alg \in {"pso", "firefly"} /\ pc = "synth" /\ iteration < max_iterations)
              => iteration >= 12 /\ TraceFlat
        /\ (alg \in {"pso", "firefly"} /\ pc = "loop" /\ iteration >= 12) => ~TraceFlat

\* A particle swarm or firefly run that stopped before its budget was spent.
C9_Witness ==
    alg \in {"pso", "firefly"} /\ pc = "synth" /\ iteration < max_iterations

\* C9 (as stated): in all five strategies the loop runs for at most
\* max_iterations iterations and stops as soon as the best fitness has changed
\* by less than epsilon over the trailing 10 iterations.  The window is read
\* generously: a loop still running after 12 iterations has seen a change.
C9_StopsAsSoonAsFlat ==
    alg \in Analysers =>
        /\ iteration <= max_iterations
        /\ (pc \notin {"start", "synth", "done"} /\ iteration >= 12
            /\ iteration < max_iterations)
              => Abs(BestAfter(iteration) - BestAfter(iteration - 10)) >= Epsilon

\* C10: an entry whose timestamp is missing or does not parse never makes the
\* analysis fail, whatever the timestamps of the other entries.  Runs of the
\* analysers with a positive budget only, so that C1's failures are not
\* counted.
C10_BadTimestampTolerated ==
    (/\ alg \in Analysers => max_iterations > 0
     /\ pc = "done" /\ logs # NoLogs /\ logs # <<>>
     /\ \E i \in 1..Len(logs) : BadTimestamp(logs[i]))
        => outcome = "returned"

Scorers == {"abc", "pso", "firefly", "fss"}

\* The normalized per-log scores the strategy of the run gives a candidate over
\* a feature matrix.
ScoresOf(position, feats) ==
    IF alg = "pso" THEN PSO_calculate_risk_scores(position, feats)
    ELSE IF alg = "firefly" THEN FF_calculate_alert_scores(position, feats)
    ELSE IF alg = "fss" THEN FSS_calculate_anomaly_scores(position, feats)
    ELSE NormalizeByMax([k \in 1..Len(feats) |-> Dot(feats[k], position)])

\* The feature matrix with entry d of log j raised by delta.
Raise(feats, j, d, delta) == [feats EXCEPT ![j][d] = @ + delta]
RaiseSteps == {Tenth(5), FP}

\* The feature matrices of a state: the one extracted, and each one that
\* differs from it in one raised entry.
FeatureMatrices ==
    {features} \cup {Raise(features, j, d, delta) :
                        j \in 1..Len(features), d \in 1..Len(features[1]),
                        delta \in RaiseSteps}

\* C11: for every candidate with components in [0,1] and every feature matrix,
\* each normalized per-log score (the raw dot product divided by the largest
\* raw score, unchanged when that is 0) lies in [0,1].
C11_NormalizedScoresInUnitInterval ==
    (alg \in Scorers /\ features # <<>>) =>
        \A n \in 1..Len(positions) : InUnitBox(positions[n]) =>
            \A feats \in FeatureMatrices : InUnitBox(ScoresOf(positions[n], feats))

\* A candidate in the unit box gives one log a normalized score strictly
\* between 0 and 1: the division by the largest raw score changed it.
C11_Witness ==
    /\ alg \in Scorers /\ Len(features) >= 2
    /\ \E n \in 1..Len(positions) :
          /\ InUnitBox(positions[n])
          /\ \E k \in 1..Len(features) :
                /\ ScoresOf(positions[n], features)[k] > 0
                /\ ScoresOf(positions[n], features)[k] < FP
                /\ ScoresOf(positions[n], features)[k] # Dot(features[k], positions[n])

PositiveWeights(v) == \A k \in 1..Len(v) : v[k] > 0

\* C12 (as amended): at fixed positive weights, raising any single entry of a
\* log's own feature vector never lowers that log's normalized score.
C12_OwnFeatureMonotone ==
    (alg \in Scorers /\ features # <<>>) =>
        \A n \in 1..Len(positions) : (InUnitBox(positions[n]) /\ PositiveWeights(positions[n])) =>
            \A i \in 1..Len(features), d \in 1..Len(features[1]), delta \in RaiseSteps :
                ScoresOf(positions[n], Raise(features, i, d, delta))[i]
                    >= ScoresOf(positions[n], features)[i]

\* At positive weights, raising an entry of a log's own vector strictly raises
\* the log's normalized score.
C12_Witness ==
    /\ alg \in Scorers /\ Len(features) >= 2
    /\ \E n \in 1..Len(positions) :
          /\ InUnitBox(positions[n]) /\ PositiveWeights(positions[n])
          /\ \E i \in 1..Len(features), d \in 1..Len(features[1]), delta \in RaiseSteps :
                ScoresOf(positions[n], Raise(features, i, d, delta))[i]
                    > ScoresOf(positions[n], features)[i]

\* C12 (as stated): at fixed positive weights, raising any single entry of the
\* feature matrix, of the log or of any other log of the run, never lowers the
\* log's normalized score.
C12_AnyFeatureMonotone ==
    (alg \in Scorers /\ features # <<>>) =>
        \A n \in 1..Len(positions) : (InUnitBox(positions[n]) /\ PositiveWeights(positions[n])) =>
            \A i \in 1..Len(features), j \in 1..Len(features), d \in 1..Len(features[1]),
               delta \in RaiseSteps :
                ScoresOf(positions[n], Raise(features, j, d, delta))[i]
                    >= ScoresOf(positions[n], features)[i]

\* C13: the aggregate score every strategy's analyze returns (anomaly_score,
\* threat_score, risk_score, alert_score) lies in [0,1], a weighted blend
\* capped at 1.
C13_AggregateScoreInUnitInterval ==
    (alg \in Analysers /\ Returned) => result.score >= 0 /\ result.score <= FP

\* A run returns a positive aggregate together with flagged entries.
C13_Witness ==
    alg \in Analysers /\ Returned /\ result.flagged # <<>> /\ result.score > 0

C15_ImprovedFishGainWeight ==
    (alg = "fss" /\ pc = "loop" /\ iteration >= 1) =>
        \A i \in 1..population_size :
            fitness_gains[i] > 0 => weight_deltas[i] = fitness_gains[i]

\* The school expanded in the last iteration: total_weight > prev_total_weight
\* (fss_test.py lines 198-201), that is, the weight changes sum to more than 0.
FSS_expanded == SumSeq(weight_deltas) > 0

\* C16: in the collective-volitive movement the school moves away from its
\* weighted centroid in an iteration where the total weight increased; an
\* iteration in which a fish improved its fitness, and so gained weight, is
\* one.
C16_ExpandsWhenWeightGrew ==
    (alg = "fss" /\ pc = "loop" /\ iteration >= 1) =>
        ((\E i \in 1..population_size : fitness_gains[i] > 0) => FSS_expanded)

\* No iteration of the fish school takes the expansion branch or changes a
\* weight.
FSS_NeverExpands ==
    (alg = "fss" /\ pc = "loop" /\ iteration >= 1) =>
        /\ ~FSS_expanded
        /\ \A i \in 1..population_size : weights[i] = FSS_WEIGHT_SCALE \div 2

\* C17: in the bee colony, at the end of every iteration (from the end of the
\* scout phase on) every stagnation counter is at most limit.
C17_CountersWithinLimit ==
    (alg = "abc" /\ (pc = "track" \/ (pc \in {"loop", "synth", "done"} /\ iteration >= 1)))
        => \A k \in 1..Len(trials) : trials[k] <= ABC_LIMIT

\* The scout phase has just reset a counter: over a single log entry every
\* fitness is 0, so no neighbour is ever accepted and only the scout phase
\* brings a counter back to 0.
C17_Witness ==
    /\ alg = "abc" /\ pc = "track" /\ Len(logs) = 1
    /\ \E k \in 1..Len(trials) : trials[k] = 0

\* The step is an acceptance attempt on source k: a pass of the employed-bee
\* loop, or a pass of the onlooker loop that counted.
ABC_attempt_on(k) ==
    /\ k = bee
    /\ \/ pc = "employed" /\ bee' # bee
       \/ pc = "onlooker" /\ count' = count + 1

\* b is not below a: both are NaN, or both are numbers and b >= a.
NotDecreased(a, b) == (a = NaN /\ b = NaN) \/ (a # NaN /\ b # NaN /\ b >= a)

\* C18: in the employed and onlooker phases of the bee colony a candidate is
\* replaced by its neighbour if and only if the neighbour's fitness is strictly
\* greater; on replacement its stagnation counter is reset to 0, otherwise the
\* candidate is unchanged and the counter grows by 1.  No other candidate or
\* counter changes, and no candidate's fitness decreases.
C18_GreedyAcceptance ==
    [][(alg = "abc" /\ pc \in {"employed", "onlooker"}) =>
          \A k \in 1..Len(positions) :
              LET before == ABC_calculate_fitness(positions[k], features)
                  after == ABC_calculate_fitness(positions'[k], features)
                  offered == ABC_calculate_fitness(new_solution', features)
              IN /\ IF ABC_attempt_on(k)
                    THEN IF FloatGt(offered, before)
                         THEN positions'[k] = new_solution' /\ trials'[k] = 0
                         ELSE positions'[k] = positions[k] /\ trials'[k] = trials[k] + 1
                    ELSE positions'[k] = positions[k] /\ trials'[k] = trials[k]
                 /\ NotDecreased(before, after)]_vars

\* A neighbour has replaced its source, and another source has kept its place
\* against one.
C18_Witness ==
    /\ alg = "abc" /\ pc \in {"employed", "onlooker"} /\ Len(logs) >= 2
    /\ \E k \in 1..Len(positions) :
          /\ positions[k] = new_solution /\ trials[k] = 0
          /\ FloatGt(ABC_calculate_fitness(positions[k], features), 0)
    /\ \E j \in 1..Len(positions) : trials[j] > 0

\* C19: the onlooker phase of every iteration of the bee colony terminates
\* (under fair random choice) after exactly colony_size acceptance attempts:
\* the candidates are visited cyclically, each pass counts at most one attempt,
\* a candidate is selected with probability fitness / total (uniform when the
\* total is 0), and the phase is left when, and only when, the count has
\* reached colony_size.
C19_OnlookerPhaseTerminates ==
    /\ [](alg = "abc" =>
            /\ pc = "onlooker" =>
                  /\ count < population_size
                  /\ bee \in 1..population_size
                  /\ \A k \in 1..population_size :
                        /\ SumNaN(fitness_values) > 0 =>
                              probabilities[k]
                                  = (fitness_values[k] * FP) \div SumNaN(fitness_values)
                        /\ SumNaN(fitness_values) = 0 =>
                              probabilities[k] = FP \div population_size
            /\ pc = "scout" => count = population_size)
    /\ [][(alg = "abc" /\ pc = "onlooker") =>
             /\ bee' = (bee % population_size) + 1
             /\ count' \in {count, count + 1}
             /\ pc' = "scout" <=> count' = population_size]_vars
    /\ (alg = "abc" /\ pc = "onlooker") ~> (pc = "scout")

\* The onlooker phase is over after colony_size counted attempts; a pass was
\* not counted on the way (the cycle is not back at the first candidate), and
\* the candidates were selected with unequal probabilities.
C19_Witness ==
    /\ alg = "abc" /\ pc = "scout" /\ count = population_size /\ bee # 1
    /\ \E k \in 1..population_size : probabilities[k] # FP \div population_size

\* C20: in the particle swarm each particle's personal-best score never
\* decreases, and at every point the global-best score equals the maximum of
\* the personal-best scores, the global-best position being a personal-best
\* position that achieved it.
C20_BestsOfTheSwarm ==
    /\ [](alg = "pso" /\ personal_best_scores # <<>> =>
             /\ best_fitness = MaxSeq(personal_best_scores)
             /\ \E k \in 1..population_size :
                    /\ personal_best_scores[k] = best_fitness
                    /\ personal_best_positions[k] = best_position
             /\ PSO_evaluate_fitness(best_position, features) = best_fitness
             /\ \A k \in 1..population_size :
                    PSO_evaluate_fitness(personal_best_positions[k], features)
                        = personal_best_scores[k])
    /\ [][(alg = "pso" /\ personal_best_scores # <<>>) =>
             \A k \in 1..population_size :
                 personal_best_scores'[k] >= personal_best_scores[k]]_vars

\* A particle has raised the global best above that of the initial swarm, and
\* another particle's personal best is below it.
C20_Witness ==
    /\ alg = "pso" /\ personal_best_scores # <<>>
    /\ best_fitness > convergence[1]
    /\ \E k \in 1..population_size : personal_best_scores[k] < best_fitness

\* C21: in the particle swarm, after every particle update each velocity
\* component lies in [-0.5, 0.5] and each position component in [0,1], and the
\* positions are never renormalized: the new position of the particle is its
\* old position plus its new velocity, clamped, and nothing else.
C21_VelocityAndPositionClamped ==
    /\ [](alg = "pso" =>
            /\ \A n \in 1..Len(velocities), k \in 1..PSO_DIM :
                  velocities[n][k] >= 0 - Tenth(5) /\ velocities[n][k] <= Tenth(5)
            /\ \A n \in 1..Len(positions) : InUnitBox(positions[n]))
    /\ [][(alg = "pso" /\ pc = "particle") =>
             \A n \in 1..population_size :
                 IF n = bee
                 THEN \A k \in 1..PSO_DIM :
                         positions'[n][k] = Clip(positions[n][k] + velocities'[n][k], 0, FP)
                 ELSE positions'[n] = positions[n] /\ velocities'[n] = velocities[n]]_vars

\* A particle update has left a velocity component at a bound of its range and
\* a position whose components do not sum to 1.
C21_Witness ==
    /\ alg = "pso" /\ pc \in {"particle", "loop", "synth"} /\ iteration + bee > 1
    /\ \E n \in 1..Len(velocities), k \in 1..PSO_DIM :
          /\ velocities[n][k] \in {0 - Tenth(5), Tenth(5)}
          /\ SumSeq(positions[n]) # FP

\* C22: in the particle swarm the inertia weight decays linearly over the
\* iterations: it is w_init in the first iteration and w_final in the last
\* iteration of a run that uses its whole budget (of more than one iteration).
C22_InertiaReachesFinal ==
    (alg = "pso" /\ pc = "particle" /\ max_iterations > 1) =>
        /\ iteration = 0 => PSO_inertia(iteration, max_iterations) = PSO_W_INIT
        /\ iteration = max_iterations - 1
              => PSO_inertia(iteration, max_iterations) = PSO_W_FINAL

\* Lines 149-165 as the claim has them: firefly j is pulled once toward every
\* firefly that was strictly brighter when the iteration began, and toward no
\* other.
FF_move_toward_brighter(sorted, alpha, rand) ==
    [j \in 1..Len(sorted) |->
        [k \in 1..FIREFLY_DIM |->
            Clip(sorted[j].position[k]
                 + SumSeq([i \in 1..(j - 1) |->
                       IF sorted[i].score > sorted[j].score
                       THEN FF_pull(sorted[i].position, sorted[j].position, alpha,
                                    rand[<<i, j>>])[k]
                       ELSE 0]),
                 0, FP)]]

\* C23: in each firefly iteration a candidate is moved toward another candidate
\* if and only if the other had strictly higher brightness at the start of the
\* iteration, once toward each such candidate; the brightest is not moved.
C23_PulledTowardBrighterOnly ==
    [][(alg = "firefly" /\ pc = "move") =>
          LET n == population_size
              pairs == {ij \in (1..n) \X (1..n) : ij[1] < ij[2]}
              sorted == FF_sort(positions, fitness_values)
          IN \E rand \in [pairs -> RandDraws(FIREFLY_DIM)] :
                positions' = FF_move_toward_brighter(sorted, FF_alpha(iteration), rand)]_vars

RECURSIVE ChainedTo(_, _)
ChainedTo(S, pher) ==
    LET T == S \cup {j \in 1..Len(pher) : \E i \in S : pher[i][j] > Tenth(5)}
    IN IF T = S THEN S ELSE ChainedTo(T, pher)

\* C25: the clusters ACO reports are exactly the connected components, of two
\* or more entries, of the graph of above-threshold pheromone edges: two
\* entries joined by a chain of above-threshold edges are in the same cluster.
C25_ClustersAreComponents ==
    (alg = "aco" /\ pc = "done" /\ outcome = "returned" /\ logs # <<>>) =>
        LET n == Len(processed_logs)
            components == {c \in {ChainedTo({i}, pheromones) : i \in 1..n} :
                              Cardinality(c) >= 2}
            reported == {{result.clusters[c].log_indices[m] :
                              m \in 1..Len(result.clusters[c].log_indices)} :
                         c \in 1..Len(result.clusters)}
        IN reported = components

\* C26: the best candidate ABC hands to the synthesis has a fitness equal to
\* the best fitness it reports as confidence: the best-so-far candidate and the
\* best-so-far fitness always refer to the same solution (stated for runs
\* whose best candidate and best fitness are numbers).
C26_BestFitnessIsOfBestSolution ==
    (alg = "abc" /\ best_position # None /\ ~IsNaNVec(best_position)
     /\ best_fitness # NaN) =>
        /\ ABC_calculate_fitness(best_position, features) = best_fitness
        /\ (pc = "done" /\ outcome = "returned") =>
               result.confidence = ABC_calculate_fitness(best_position, features)

\* C27: for every colony size of one or more, the neighbour production of the
\* employed-bee phase terminates (with a partner of a different index), so the
\* phase is left.
C27_NeighbourProductionTerminates ==
    (alg = "abc" /\ pc = "employed") ~> (pc # "employed")

\* The fitness PSO and firefly give a candidate.
SwarmFitness(position, feats) ==
    IF alg = "pso" THEN PSO_evaluate_fitness(position, feats)
    ELSE FF_evaluate_fitness(position, feats)

\* C28: in PSO and firefly the convergence trace never decreases, its first
\* element is the best fitness of the initial population, its length is the
\* number of iterations executed plus one, and its last element is the
\* fitness of the best candidate, the one the synthesis uses.
C28_ConvergenceTrace ==
    /\ []((alg \in {"pso", "firefly"} /\ convergence # <<>>) =>
             /\ \A k \in 1..(Len(convergence) - 1) : convergence[k] <= convergence[k + 1]
             /\ Len(convergence) = iteration + 1
             /\ SwarmFitness(best_position, features) = best_fitness
             /\ pc \in {"loop", "synth", "done"} =>
                    convergence[Len(convergence)] = best_fitness
             /\ pc = "done" => result.trace = convergence /\ result.confidence = best_fitness)
    /\ [][(alg \in {"pso", "firefly"} /\ pc = "start" /\ pc' = "loop") =>
              convergence' = <<MaxSeq([k \in 1..population_size |->
                                          SwarmFitness(positions'[k], features')])>>]_vars
    /\ [][(alg \in {"pso", "firefly"} /\ convergence # <<>>) =>
              /\ Len(convergence') >= Len(convergence)
              /\ convergence'[1] = convergence[1]]_vars

\* A firefly run has returned a trace that rose in its last iteration.
C28_Witness ==
    /\ alg = "firefly" /\ pc = "done" /\ outcome = "returned"
    /\ Len(result.trace) >= 2
    /\ result.trace[Len(result.trace)] > result.trace[1]

\* The raw scores the best weight vector gives the retained logs.
RawScores == [k \in 1..Len(features) |-> Dot(features[k], best_position)]

\* C29: in PSO and firefly, whenever the best weight vector gives a positive
\* raw score to at least one retained log, the largest normalized score is
\* exactly 1.0, and therefore at least one entry is flagged.
C29_PositiveScoreFlagsAnEntry ==
    (alg \in {"pso", "firefly"} /\ pc = "done" /\ outcome = "returned"
     /\ \E k \in 1..Len(features) : RawScores[k] > 0) =>
        /\ MaxSeq(ScoresOf(best_position, features)) = FP
        /\ result.flagged # <<>>
        /\ \E n \in 1..Len(result.flagged) : result.flagged[n].score = FP

\* A run has returned with a best weight vector that scores two retained logs
\* differently, both above zero.
C29_Witness ==
    /\ alg \in {"pso", "firefly"} /\ pc = "done" /\ outcome = "returned"
    /\ Len(features) = 2
    /\ RawScores[1] > 0 /\ RawScores[2] > 0 /\ RawScores[1] # RawScores[2]
    /\ result.flagged # <<>>

\* C30: the clusters ACO returns are pairwise disjoint, each has two members
\* or more, its size field is the number of its indices, and the list is in
\* non-increasing order of risk score.
C30_ClustersDisjointSizedOrdered ==
    (alg = "aco" /\ pc = "done" /\ outcome = "returned") =>
        LET clusters == result.clusters
            Members(c) == {clusters[c].log_indices[m] :
                              m \in 1..Len(clusters[c].log_indices)}
        IN /\ \A c, d \in 1..Len(clusters) : c # d => Members(c) \cap Members(d) = {}
           /\ \A c \in 1..Len(clusters) :
                 /\ Cardinality(Members(c)) >= 2
                 /\ clusters[c].size = Len(clusters[c].log_indices)
                 /\ clusters[c].size = Cardinality(Members(c))
           /\ \A c \in 1..(Len(clusters) - 1) : clusters[c].score >= clusters[c + 1].score

\* A run has returned two clusters, and the one of the later entries, found
\* second, comes first for its higher risk score.
C30_Witness ==
    /\ alg = "aco" /\ pc = "done" /\ outcome = "returned"
    /\ Len(result.clusters) = 2
    /\ result.clusters[1].score > result.clusters[2].score
    /\ result.clusters[1].log_indices[1] > result.clusters[2].log_indices[1]

=============================================================================
